---------------------------- MODULE Spec2Model ----------------------------
(***************************************************************************)
(* Jarvis backend: the command resolution pipeline.                        *)
(*                                                                         *)
(*   app/services/semantic_router.py   keyword router (semantic_route)     *)
(*   app/logic/processor.py            Processor.process, both paths       *)
(*   app/services/tool_registry.py     TOOL_DEFINITIONS, prepare payload   *)
(*   app/core/security.py              sanitize_tool_arguments             *)
(*   app/services/discovery.py         DiscoveryService                    *)
(*   app/logic/device_classifier.py    DeviceClassifier.classify           *)
(*   app/logic/context.py              ConversationContext                 *)
(*   app/api/routes.py                 process_text (HTTP mapping)         *)
(*                                                                         *)
(* Python strings are TLA+ strings (sequences of characters): Len, SubSeq  *)
(* and \o work on them, one character is a string of length one.           *)
(***************************************************************************)
EXTENDS Integers, Sequences, FiniteSets, TLC

(***************************************************************************)
(* Bounds of the model (not program constants).                            *)
(***************************************************************************)
\* number of pieces a probe text of the text-function specification is made of
MaxPieces == 3
\* number of process(text) requests in flight at the same time
MaxConcurrent == 1
\* number of process(text) requests received in one behaviour
MaxRequests == 1
\* number of entries of an argument dict of the argument specification
MaxArgs == 2
\* number of successful refreshes of the catalog in one behaviour
MaxRefreshes == 2
\* number of states in a list of the catalog specification
MaxStates == 3
\* number of requests in flight at the same time in the context specification
MaxInFlight == 2
\* the time the clock of the timer specification runs to
MaxTime == 64

(***************************************************************************)
(* String helpers (Python str semantics).                                  *)
(***************************************************************************)
\* s[i] of Python, 1-based: the one-character string at position i
CharAt(s, i) == SubSeq(s, i, i)

\* s[i-1:] of Python, 1-based: the suffix of s that starts at position i
Suffix(s, i) == SubSeq(s, i, Len(s))

\* `sub in s` of Python
Contains(s, sub) ==
    \E i \in 1..(Len(s) - Len(sub) + 1) : SubSeq(s, i, i + Len(sub) - 1) = sub

\* variant: no string begins with any prefix
StartsWith_Never(s, prefix) == FALSE

\* s.startswith(prefix)
StartsWith(s, prefix) ==
    Len(s) >= Len(prefix) /\ SubSeq(s, 1, Len(prefix)) = prefix

UpperChars == "ABCDEFGHIJKLMNOPQRSTUVWXYZÄÖÜ"
LowerChars == "abcdefghijklmnopqrstuvwxyzäöü"
DigitChars == "0123456789"

UpperSet == {CharAt(UpperChars, i) : i \in 1..Len(UpperChars)}
LowerSet == {CharAt(LowerChars, i) : i \in 1..Len(LowerChars)} \cup {"ß"}
DigitSet == {CharAt(DigitChars, i) : i \in 1..Len(DigitChars)}
\* the characters \w of the re module matches on str patterns: letters,
\* digits and the underscore
WordSet == UpperSet \cup LowerSet \cup DigitSet \cup {"_"}
\* the characters \s of the re module matches
SpaceSet == {" ", "\t", "\n", "\r"}

IsDigit(c) == c \in DigitSet
IsSpace(c) == c \in SpaceSet
IsWordChar(c) == c \in WordSet

DigitValOf == [c \in DigitSet |-> CHOOSE d \in 0..9 : CharAt(DigitChars, d + 1) = c]
DigitVal(c) == DigitValOf[c]

LowerOf ==
    [c \in UpperSet |->
        CharAt(LowerChars, CHOOSE i \in 1..Len(UpperChars) : CharAt(UpperChars, i) = c)]
LowerChar(c) == IF c \in UpperSet THEN LowerOf[c] ELSE c

\* str.lower()
RECURSIVE Lower(_)
Lower(s) ==
    IF s = "" THEN "" ELSE LowerChar(CharAt(s, 1)) \o Lower(Suffix(s, 2))

\* number of leading characters of s[i:] that are digits / whitespace
RECURSIVE DigitRun(_, _)
DigitRun(s, i) ==
    IF i <= Len(s) /\ IsDigit(CharAt(s, i)) THEN 1 + DigitRun(s, i + 1) ELSE 0

RECURSIVE SpaceRun(_, _)
SpaceRun(s, i) ==
    IF i <= Len(s) /\ IsSpace(CharAt(s, i)) THEN 1 + SpaceRun(s, i + 1) ELSE 0

\* int(s) for a string of digits
RECURSIVE IntOf(_)
IntOf(s) ==
    IF s = "" THEN 0
    ELSE 10 * IntOf(SubSeq(s, 1, Len(s) - 1)) + DigitVal(CharAt(s, Len(s)))

Min(a, b) == IF a <= b THEN a ELSE b
Max(a, b) == IF a >= b THEN a ELSE b

\* An optional value (T | None of Python): None, or Some(x) holding x
None == << >>
Some(x) == << x >>
Get(o) == o[1]

(***************************************************************************)
(* app/services/semantic_router.py                                         *)
(***************************************************************************)
\* _DIRECT_PATTERNS, in dict (definition) order
DIRECT_PATTERNS == <<
    [intent |-> "light_control",
     keywords |-> <<"light", "lights", "licht", "lampe", "lampen">>],
    [intent |-> "cover_control",
     keywords |-> <<"rollo", "rolladen", "shade", "blinds", "jalousie">>],
    [intent |-> "media_control",
     keywords |-> <<"musik", "speaker", "musik", "tv", "fernseher", "media">>],
    [intent |-> "climate_control",
     keywords |-> <<"klima", "thermostat", "heizung", "heizer", "ac", "ventilator">>],
    [intent |-> "switch_control",
     keywords |-> <<"steckdose", "switch", "power", "schalte">> ] >>

\* _INTENT_DOMAIN
INTENT_DOMAIN(intent) ==
    CASE intent = "light_control"   -> "light"
      [] intent = "cover_control"   -> "cover"
      [] intent = "media_control"   -> "media_player"
      [] intent = "climate_control" -> "climate"
      [] intent = "switch_control"  -> "switch"

\* semantic_router._contains_keyword: substring test on the lower-cased text
RouterContainsKeyword(text, keywords) ==
    LET lowered == Lower(text)
    IN  \E k \in 1..Len(keywords) : Contains(lowered, keywords[k])

\* variant: the last entry of the table with a keyword in the text wins
semantic_route_LastMatch(text) ==
    LET hits == {p \in 1..Len(DIRECT_PATTERNS) :
                    RouterContainsKeyword(text, DIRECT_PATTERNS[p].keywords)}
    IN  IF hits = {} THEN None
        ELSE LET p == CHOOSE q \in hits : \A o \in hits : q >= o
             IN  Some([intent |-> DIRECT_PATTERNS[p].intent,
                       domain |-> INTENT_DOMAIN(DIRECT_PATTERNS[p].intent)])

\* semantic_route: the first entry of the table with a keyword in the text
semantic_route(text) ==
    LET hits == {p \in 1..Len(DIRECT_PATTERNS) :
                    RouterContainsKeyword(text, DIRECT_PATTERNS[p].keywords)}
    IN  IF hits = {} THEN None
        ELSE LET p == CHOOSE q \in hits : \A o \in hits : q <= o
             IN  Some([intent |-> DIRECT_PATTERNS[p].intent,
                       domain |-> INTENT_DOMAIN(DIRECT_PATTERNS[p].intent)])

(***************************************************************************)
(* app/logic/processor.py: text helpers                                    *)
(***************************************************************************)
NEGATION_KEYWORDS ==
    {"aus", "abschalten", "ausschalten", "ausmachen", "stop", "stoppe",
     "pause", "off", "schließen", "schliesse", "close", "halt"}

\* re.sub(r"[^\wäöüß]+", " ", s): every maximal run of non-word characters
\* becomes one space
RECURSIVE CollapseNonWord(_)
CollapseNonWord(s) ==
    IF s = "" THEN ""
    ELSE IF IsWordChar(CharAt(s, 1))
         THEN CharAt(s, 1) \o CollapseNonWord(Suffix(s, 2))
         ELSE IF Len(s) >= 2 /\ ~IsWordChar(CharAt(s, 2))
              THEN CollapseNonWord(Suffix(s, 2))
              ELSE " " \o CollapseNonWord(Suffix(s, 2))

\* the padded text the keywords are searched in
WrapText(normalized) == " " \o normalized \o " "

\* variant: the keyword is searched as a substring of the lower-cased text
contains_keyword_Substring(text, keywords) ==
    \E keyword \in keywords : Contains(Lower(text), keyword)

\* processor._contains_keyword
contains_keyword(text, keywords) ==
    LET normalized == CollapseNonWord(Lower(text))
        wrapped == WrapText(normalized)
    IN  \E keyword \in keywords : Contains(wrapped, " " \o keyword \o " ")

\* _BRIGHTNESS_PATTERN (\d{1,3})\s*% tried at position i: the length of the
\* digit group of the match, 0 when there is no match at i
BrightnessMatchAt(text, i) ==
    LET k == Min(3, DigitRun(text, i))
        j == i + k + SpaceRun(text, i + k)
    IN  IF k >= 1 /\ j <= Len(text) /\ CharAt(text, j) = "%" THEN k ELSE 0

\* _extract_brightness_pct: leftmost match, clamped to 1..100
extract_brightness_pct(text) ==
    LET at == {i \in 1..Len(text) : BrightnessMatchAt(text, i) > 0}
    IN  IF at = {} THEN None
        ELSE LET i == CHOOSE a \in at : \A b \in at : a <= b
                 value == IntOf(SubSeq(text, i, i + BrightnessMatchAt(text, i) - 1))
             IN  Some(Max(1, Min(value, 100)))

\* re.findall(r"(\d{1,2}(?:\.\d)?)", text) from position i on: the matches,
\* left to right and non-overlapping, each as its value in tenths
RECURSIVE FindNumbers(_, _)
FindNumbers(text, i) ==
    IF i > Len(text) THEN << >>
    ELSE IF ~IsDigit(CharAt(text, i)) THEN FindNumbers(text, i + 1)
    ELSE LET k == Min(2, DigitRun(text, i))
             frac == i + k + 1 <= Len(text)
                     /\ CharAt(text, i + k) = "."
                     /\ IsDigit(CharAt(text, i + k + 1))
             whole == IntOf(SubSeq(text, i, i + k - 1))
         IN  IF frac
             THEN << 10 * whole + DigitVal(CharAt(text, i + k + 1)) >>
                    \o FindNumbers(text, i + k + 2)
             ELSE << 10 * whole >> \o FindNumbers(text, i + k)

\* _extract_temperature: the first match whose value is in 5..35 (in tenths)
extract_temperature(text) ==
    LET numbers == FindNumbers(text, 1)
        ok == {n \in 1..Len(numbers) : 50 <= numbers[n] /\ numbers[n] <= 350}
    IN  IF ok = {} THEN None
        ELSE Some(numbers[CHOOSE n \in ok : \A m \in ok : n <= m])

(***************************************************************************)
(* Python dicts: a sequence of entries [k |-> key, v |-> value] in         *)
(* insertion order, keys unique.                                           *)
(***************************************************************************)
EmptyMap == << >>
Keys(m) == {m[i].k : i \in DOMAIN m}
HasKey(m, key) == \E i \in DOMAIN m : m[i].k = key
MapGet(m, key) == m[CHOOSE i \in DOMAIN m : m[i].k = key].v
\* m.get(key, default)
MapGetOr(m, key, default) == IF HasKey(m, key) THEN MapGet(m, key) ELSE default
\* m[key] = value
MapPut(m, key, value) ==
    IF HasKey(m, key)
    THEN [i \in DOMAIN m |-> IF m[i].k = key THEN [k |-> key, v |-> value] ELSE m[i]]
    ELSE Append(m, [k |-> key, v |-> value])

\* str.strip()
RECURSIVE LStrip(_)
LStrip(s) == IF s # "" /\ IsSpace(CharAt(s, 1)) THEN LStrip(Suffix(s, 2)) ELSE s
RECURSIVE RStrip(_)
RStrip(s) ==
    IF s # "" /\ IsSpace(CharAt(s, Len(s))) THEN RStrip(SubSeq(s, 1, Len(s) - 1)) ELSE s
Strip(s) == RStrip(LStrip(s))

\* s.replace(old, new) for a one-character old
RECURSIVE ReplaceChar(_, _, _)
ReplaceChar(s, old, new) ==
    IF s = "" THEN ""
    ELSE (IF CharAt(s, 1) = old THEN new ELSE CharAt(s, 1))
            \o ReplaceChar(Suffix(s, 2), old, new)

(***************************************************************************)
(* app/core/security.py                                                    *)
(*                                                                         *)
(* A JSON value is a pair << type, content >>: "str" (a string), "int",    *)
(* "float" (in tenths), "bool", "null", "list" (a sequence of values) and  *)
(* "map" (a dict of values).  A raised SanitizationError is the value      *)
(* << "error", message >>.                                                 *)
(***************************************************************************)
JStr(s) == << "str", s >>
JInt(n) == << "int", n >>
JFloat(tenths) == << "float", tenths >>
JBool(b) == << "bool", b >>
JNull == << "null" >>
JList(items) == << "list", items >>
JMap(entries) == << "map", entries >>
SanitizationError(message) == << "error", message >>
TypeOf(value) == value[1]
ContentOf(value) == value[2]
IsError(x) == TypeOf(x) = "error"

\* the number of elements of a list or dict that _sanitize_value keeps
MaxElements == 20

\* variant: an error among the results goes unnoticed
FirstError_Ignored(results) == 0

\* the first position of a sequence of results that holds an error, 0 if none
FirstError(results) ==
    LET bad == {i \in DOMAIN results : IsError(results[i])}
    IN  IF bad = {} THEN 0 ELSE CHOOSE i \in bad : \A j \in bad : i <= j

\* variant: the keys of a dict are not looked at
RECURSIVE sanitize_value_NoKeyCheck(_)
sanitize_value_NoKeyCheck(value) ==
    CASE TypeOf(value) = "str" ->
            JStr(ReplaceChar(ReplaceChar(Strip(ContentOf(value)), "\n", " "), "\r", " "))
      [] TypeOf(value) \in {"int", "float", "bool"} -> value
      [] TypeOf(value) = "list" ->
            LET list == ContentOf(value)
                n == Min(Len(list), MaxElements)
                items == [i \in 1..n |-> sanitize_value_NoKeyCheck(list[i])]
                e == FirstError(items)
            IN  IF e # 0 THEN items[e] ELSE JList(items)
      [] TypeOf(value) = "map" ->
            LET dict == ContentOf(value)
                n == Min(Len(dict), MaxElements)
                entries == [i \in 1..n |-> sanitize_value_NoKeyCheck(dict[i].v)]
                e == FirstError(entries)
            IN  IF e # 0 THEN entries[e]
                ELSE JMap([i \in 1..n |-> [k |-> dict[i].k, v |-> entries[i]]])
      [] OTHER -> SanitizationError("Unsupported argument type provided")

\* _sanitize_value
RECURSIVE sanitize_value(_)
sanitize_value(value) ==
    CASE TypeOf(value) = "str" ->
            JStr(ReplaceChar(ReplaceChar(Strip(ContentOf(value)), "\n", " "), "\r", " "))
      [] TypeOf(value) \in {"int", "float", "bool"} -> value
      [] TypeOf(value) = "list" ->
            LET list == ContentOf(value)
                n == Min(Len(list), MaxElements)
                items == [i \in 1..n |-> sanitize_value(list[i])]
                e == FirstError(items)
            IN  IF e # 0 THEN items[e] ELSE JList(items)
      [] TypeOf(value) = "map" ->
            LET dict == ContentOf(value)
                n == Min(Len(dict), MaxElements)
                entries ==
                    [i \in 1..n |->
                        IF StartsWith(dict[i].k, "__")
                        THEN SanitizationError("Unsafe mapping key detected")
                        ELSE sanitize_value(dict[i].v)]
                e == FirstError(entries)
            IN  IF e # 0 THEN entries[e]
                ELSE JMap([i \in 1..n |-> [k |-> dict[i].k, v |-> entries[i]]])
      [] OTHER -> SanitizationError("Unsupported argument type provided")

\* variant: the top-level filter lets every entry pass
FilterAllowed_Unfiltered(args, allowed) == args

\* the entries of args that pass the top-level filter of
\* sanitize_tool_arguments, in order
RECURSIVE FilterAllowed(_, _)
FilterAllowed(args, allowed) ==
    IF args = << >> THEN << >>
    ELSE LET e == Head(args)
         IN  IF e.k \notin allowed \/ StartsWith(e.k, "__")
             THEN FilterAllowed(Tail(args), allowed)
             ELSE << e >> \o FilterAllowed(Tail(args), allowed)

\* variant: every value is sanitized before the filter looks at its key
sanitize_tool_arguments_Strict(args, allowed_keys) ==
    LET allowed == {allowed_keys[i] : i \in DOMAIN allowed_keys}
    IN  IF allowed = {} THEN SanitizationError("No allowed keys defined for the tool")
        ELSE IF args = None THEN JMap(EmptyMap)
        ELSE LET all == [i \in DOMAIN Get(args) |-> sanitize_value(Get(args)[i].v)]
                 kept == FilterAllowed(Get(args), allowed)
                 values == [i \in DOMAIN kept |-> sanitize_value(kept[i].v)]
             IN  IF FirstError(all) # 0 THEN all[FirstError(all)]
                 ELSE JMap([i \in DOMAIN kept |-> [k |-> kept[i].k, v |-> values[i]]])

\* sanitize_tool_arguments: the sanitized dict, as a "map" value, or the error
sanitize_tool_arguments(args, allowed_keys) ==
    LET allowed == {allowed_keys[i] : i \in DOMAIN allowed_keys}
    IN  IF allowed = {} THEN SanitizationError("No allowed keys defined for the tool")
        ELSE IF args = None THEN JMap(EmptyMap)
        ELSE LET kept == FilterAllowed(Get(args), allowed)
                 values == [i \in DOMAIN kept |-> sanitize_value(kept[i].v)]
                 e == FirstError(values)
             IN  IF e # 0 THEN values[e]
                 ELSE JMap([i \in DOMAIN kept |-> [k |-> kept[i].k, v |-> values[i]]])

(***************************************************************************)
(* app/services/tool_registry.py                                           *)
(***************************************************************************)
ToolDefinition(name, domain, service, allowed_args) ==
    [name |-> name, domain |-> domain, service |-> service,
     allowed_args |-> allowed_args, required_args |-> << "entity_id" >>]

\* TOOL_DEFINITIONS, in definition order
TOOL_DEFINITIONS == <<
    ToolDefinition("ha_light_turn_on", "light", "turn_on",
                   << "entity_id", "brightness", "brightness_pct", "color_temp" >>),
    ToolDefinition("ha_light_turn_off", "light", "turn_off", << "entity_id" >>),
    ToolDefinition("ha_switch_turn_on", "switch", "turn_on", << "entity_id" >>),
    ToolDefinition("ha_switch_turn_off", "switch", "turn_off", << "entity_id" >>),
    ToolDefinition("ha_media_play", "media_player", "media_play", << "entity_id" >>),
    ToolDefinition("ha_media_pause", "media_player", "media_pause", << "entity_id" >>),
    ToolDefinition("ha_cover_open", "cover", "open_cover", << "entity_id" >>),
    ToolDefinition("ha_cover_close", "cover", "close_cover", << "entity_id" >>),
    [name |-> "ha_climate_set_temperature", domain |-> "climate",
     service |-> "set_temperature",
     allowed_args |-> << "entity_id", "temperature" >>,
     required_args |-> << "entity_id", "temperature" >>] >>

ToolNames == {TOOL_DEFINITIONS[i].name : i \in DOMAIN TOOL_DEFINITIONS}

\* _INTENT_TOOL_MAPPING: intent -> (tool when on, tool when off)
INTENT_TOOL_MAPPING == <<
    [intent |-> "light_control",   tools |-> << "ha_light_turn_on", "ha_light_turn_off" >>],
    [intent |-> "switch_control",  tools |-> << "ha_switch_turn_on", "ha_switch_turn_off" >>],
    [intent |-> "media_control",   tools |-> << "ha_media_play", "ha_media_pause" >>],
    [intent |-> "cover_control",   tools |-> << "ha_cover_open", "ha_cover_close" >>],
    [intent |-> "climate_control",
     tools |-> << "ha_climate_set_temperature", "ha_climate_set_temperature" >>] >>

\* get_tool_definition
get_tool_definition(name) ==
    IF name \in ToolNames
    THEN Some(TOOL_DEFINITIONS[CHOOSE i \in DOMAIN TOOL_DEFINITIONS :
                                    TOOL_DEFINITIONS[i].name = name])
    ELSE None

\* tool_for_intent
tool_for_intent(intent, turn_off) ==
    LET known == {i \in DOMAIN INTENT_TOOL_MAPPING : INTENT_TOOL_MAPPING[i].intent = intent}
    IN  IF known = {} THEN None
        ELSE LET tools == INTENT_TOOL_MAPPING[CHOOSE i \in known : TRUE].tools
                 tool_name == IF turn_off THEN tools[2] ELSE tools[1]
             IN  get_tool_definition(tool_name)

\* what prepare_service_payload raises
Raised(exception, message) ==
    [raised |-> exception, message |-> message,
     domain |-> "", service |-> "", data |-> EmptyMap]
\* what prepare_service_payload returns
Prepared(domain, service, data) ==
    [raised |-> "", message |-> "",
     domain |-> domain, service |-> service, data |-> data]

\* variant: no required argument is ever found missing
FirstMissing_None(required_args, sanitized_args) == 0

\* the first required argument that is not a key of the sanitized arguments,
\* 0 if all are there
FirstMissing(required_args, sanitized_args) ==
    LET missing == {i \in DOMAIN required_args : ~HasKey(sanitized_args, required_args[i])}
    IN  IF missing = {} THEN 0 ELSE CHOOSE i \in missing : \A j \in missing : i <= j

\* prepare_service_payload; `args or {}` makes None the empty dict
prepare_service_payload(tool_name, args) ==
    LET definition == get_tool_definition(tool_name)
    IN  IF definition = None THEN Raised("ValueError", "Unknown tool")
        ELSE LET def == Get(definition)
                 sanitized == sanitize_tool_arguments(
                                 IF args = None THEN Some(EmptyMap) ELSE args,
                                 def.allowed_args)
             IN  IF IsError(sanitized)
                 THEN Raised("SanitizationError", ContentOf(sanitized))
                 ELSE IF FirstMissing(def.required_args, ContentOf(sanitized)) # 0
                 THEN Raised("SanitizationError", "Missing required argument")
                 ELSE Prepared(def.domain, def.service, ContentOf(sanitized))

(***************************************************************************)
(* app/logic/device_classifier.py                                          *)
(***************************************************************************)
\* the values of the DeviceDomain enum
DeviceDomain ==
    {"alarm_control_panel", "binary_sensor", "camera", "climate", "cover",
     "device_tracker", "fan", "humidifier", "light", "lock", "media_player",
     "sensor", "switch", "vacuum", "unknown"}

\* _DEFAULT_ALIASES, in definition order
DEFAULT_ALIASES == <<
    [alias |-> "lamp", domain |-> "light"],
    [alias |-> "lampe", domain |-> "light"],
    [alias |-> "licht", domain |-> "light"],
    [alias |-> "light", domain |-> "light"],
    [alias |-> "switch", domain |-> "switch"],
    [alias |-> "plug", domain |-> "switch"],
    [alias |-> "outlet", domain |-> "switch"],
    [alias |-> "socket", domain |-> "switch"],
    [alias |-> "cover", domain |-> "cover"],
    [alias |-> "shade", domain |-> "cover"],
    [alias |-> "blind", domain |-> "cover"],
    [alias |-> "jalousie", domain |-> "cover"],
    [alias |-> "roller", domain |-> "cover"],
    [alias |-> "fan", domain |-> "fan"],
    [alias |-> "ventilator", domain |-> "fan"],
    [alias |-> "media", domain |-> "media_player"],
    [alias |-> "speaker", domain |-> "media_player"],
    [alias |-> "tv", domain |-> "media_player"],
    [alias |-> "thermostat", domain |-> "climate"],
    [alias |-> "ac", domain |-> "climate"],
    [alias |-> "vacuum", domain |-> "vacuum"] >>

\* s.split(sep, maxsplit=1)[0]: the part of s before the first sep
RECURSIVE SplitFirst(_, _)
SplitFirst(s, sep) ==
    IF s = "" \/ CharAt(s, 1) = sep THEN ""
    ELSE CharAt(s, 1) \o SplitFirst(Suffix(s, 2), sep)

\* DeviceClassifier._candidate_domains; attributes is a dict of strings
candidate_domains(entity_id, attributes) ==
    LET device_class == Lower(Strip(MapGetOr(attributes, "device_class", "")))
    IN  (IF device_class # "" THEN << device_class >> ELSE << >>)
        \o (IF entity_id # "" THEN << Lower(SplitFirst(entity_id, ".")) >> ELSE << >>)

\* DeviceClassifier._to_domain_enum
to_domain_enum(domain) == IF domain \in DeviceDomain THEN domain ELSE "unknown"

\* DeviceClassifier._normalize_domain
normalize_domain(candidate) ==
    LET lowered == Lower(candidate)
        hits == {a \in DOMAIN DEFAULT_ALIASES : DEFAULT_ALIASES[a].alias = lowered}
    IN  IF hits # {} THEN Some(DEFAULT_ALIASES[CHOOSE a \in hits : TRUE].domain)
        ELSE IF to_domain_enum(lowered) # "unknown" THEN Some(to_domain_enum(lowered))
        ELSE None

\* DeviceClassifier.classify
classify(entity_id, attributes) ==
    LET candidates == candidate_domains(entity_id, attributes)
        decided == {c \in DOMAIN candidates : normalize_domain(candidates[c]) # None}
        lowered_id == Lower(entity_id)
        found == {a \in DOMAIN DEFAULT_ALIASES : Contains(lowered_id, DEFAULT_ALIASES[a].alias)}
        domain_hint == IF candidates # << >> THEN candidates[Len(candidates)] ELSE ""
    IN  IF decided # {}
        THEN Get(normalize_domain(candidates[CHOOSE c \in decided : \A d \in decided : c <= d]))
        ELSE IF found # {}
        THEN DEFAULT_ALIASES[CHOOSE a \in found : \A b \in found : a <= b].domain
        ELSE IF domain_hint # "" THEN domain_hint ELSE "unknown"

\* classify_entity: the shared default classifier
classify_entity(entity_id, attributes) == classify(entity_id, attributes)

(***************************************************************************)
(* app/services/discovery.py                                               *)
(***************************************************************************)
IGNORED_DOMAINS == {"device_tracker", "binary_sensor", "sensor", "person", "zone", "sun"}

\* DiscoveryService.__init__ defaults
cache_max_entities == 200
min_score == 65

\* `a or b` on strings
StrOr(a, b) == IF a # "" THEN a ELSE b

\* the EntityRecord refresh() builds from one element of fetch_states()
EntityRecord(state) ==
    [entity_id |-> state.entity_id,
     name |-> StrOr(MapGetOr(state.attributes, "friendly_name", ""), state.entity_id),
     domain |-> classify(state.entity_id, state.attributes),
     state |-> state.state,
     attributes |-> state.attributes]

\* EntityRecord.search_text
search_text(record) ==
    StrOr(MapGetOr(record.attributes, "friendly_name", ""), record.name)
        \o " " \o ReplaceChar(record.entity_id, "_", " ")

\* the loop of refresh() over states, filtered being the list built so far
RECURSIVE FilterStates(_, _, _)
FilterStates(states, filtered, cap) ==
    IF states = << >> THEN filtered
    ELSE LET state == Head(states)
         IN  IF state.entity_id = "" THEN FilterStates(Tail(states), filtered, cap)
             ELSE IF classify(state.entity_id, state.attributes) \in IGNORED_DOMAINS
             THEN FilterStates(Tail(states), filtered, cap)
             ELSE LET longer == Append(filtered, EntityRecord(state))
                  IN  IF Len(longer) >= cap THEN longer
                      ELSE FilterStates(Tail(states), longer, cap)

\* variant: _search_sync scores every record whatever the domains
SelectDomains_Unfiltered(records, domains) == records

\* the records _search_sync scores: those of the domains, all when no domain
\* is given
RECURSIVE SelectDomains(_, _)
SelectDomains(records, domains) ==
    IF records = << >> THEN << >>
    ELSE LET rest == SelectDomains(Tail(records), domains)
         IN  IF domains = {} \/ Lower(Head(records).domain) \in {Lower(d) : d \in domains}
             THEN << Head(records) >> \o rest
             ELSE rest

\* choices of _search_sync: the dict entity_id -> search_text
RECURSIVE Choices(_)
Choices(records) ==
    IF records = << >> THEN EmptyMap
    ELSE LET r == records[Len(records)]
         IN  MapPut(Choices(SubSeq(records, 1, Len(records) - 1)),
                    r.entity_id, search_text(r))

\* rapidfuzz process.extract(query, choices, scorer, limit) on a dict: the
\* best `limit` choices by score, equal scores in dict order, each as the
\* tuple (choice, score, key), the choice being the dict's value (the text
\* that was compared with the query) and the key its key.  scores[i] is what
\* the scorer returned for the i-th choice.
RECURSIVE Extract(_, _, _, _)
Extract(choices, scores, limit, taken) ==
    LET left == DOMAIN choices \ taken
    IN  IF limit = 0 \/ left = {} THEN << >>
        ELSE LET best == CHOOSE i \in left :
                            \A j \in left : scores[i] > scores[j]
                                            \/ (scores[i] = scores[j] /\ i <= j)
             IN  << << choices[best].v, scores[best], choices[best].k >> >>
                    \o Extract(choices, scores, limit - 1, taken \cup {best})

\* the loop of _search_sync over the matches
RECURSIVE CollectResults(_, _)
CollectResults(matches, records) ==
    IF matches = << >> THEN << >>
    ELSE LET entity_id == Head(matches)[1]
             score == Head(matches)[2]
             same == {i \in DOMAIN records : records[i].entity_id = entity_id}
             rest == CollectResults(Tail(matches), records)
         IN  IF score < min_score \/ same = {} THEN rest
             ELSE << records[CHOOSE i \in same : \A j \in same : i <= j] >> \o rest

\* the first loop of get_context_entities over the records, selected being
\* the list built so far
RECURSIVE SelectContext(_, _, _, _)
SelectContext(records, selected, limit, domains) ==
    IF records = << >> THEN selected
    ELSE IF domains # {} /\ Head(records).domain \notin domains
    THEN SelectContext(Tail(records), selected, limit, domains)
    ELSE LET longer == Append(selected, Head(records))
         IN  IF Len(longer) >= limit THEN longer
             ELSE SelectContext(Tail(records), longer, limit, domains)

\* the description get_context_entities gives of one record
ContextEntry(record) ==
    [entity_id |-> record.entity_id,
     domain |-> record.domain,
     state |-> record.state,
     friendly_name |-> MapGetOr(record.attributes, "friendly_name", record.name)]

\* DiscoveryService.get_context_entities on the list `snapshot` it reads from
\* self._entities
get_context_entities(snapshot, limit, domains) ==
    LET selected == SelectContext(snapshot, << >>, limit, domains)
    IN  [i \in DOMAIN selected |-> ContextEntry(selected[i])]

\* DiscoveryService._search_sync on the list `snapshot` it reads from
\* self._entities
search_sync(snapshot, limit, domains, scores) ==
    LET records == SelectDomains(snapshot, domains)
        choices == Choices(records)
    IN  IF choices = EmptyMap THEN << >>
        ELSE CollectResults(Extract(choices, scores, limit, {}), records)

(***************************************************************************)
(* app/logic/context.py                                                    *)
(***************************************************************************)
\* ConversationContext.__init__: max_length of the deque
max_length == 10

\* variant: a full deque keeps its entries and drops the new one
add_entry_KeepsOldest(history, user_text, action_summary) ==
    LET longer == Append(history, [user_text |-> user_text,
                                   action_summary |-> action_summary])
    IN  IF Len(longer) > max_length THEN history ELSE longer

\* ConversationContext.add_entry on a deque(maxlen=max_length)
add_entry(history, user_text, action_summary) ==
    LET longer == Append(history, [user_text |-> user_text,
                                   action_summary |-> action_summary])
    IN  IF Len(longer) > max_length THEN Tail(longer) ELSE longer

(***************************************************************************)
(* app/services/entity_classifier.py and app/services/openai_ha_adapter.py *)
(*                                                                         *)
(* An entity is a record entity_id, state, name (None when the dict has no *)
(* name), attributes.                                                      *)
(***************************************************************************)
\* entity_classifier.classify_entity: the prefix as written, looked up in the
\* mapping
EntityClassifierDomains ==
    {"light", "switch", "cover", "media_player", "fan", "climate", "sensor",
     "binary_sensor"}
entity_classifier_classify_entity(entity_id, attributes) ==
    LET domain == SplitFirst(entity_id, ".")
    IN  IF domain \in EntityClassifierDomains THEN domain ELSE "unknown"

\* s.split(".")[-1]: the part of s after its last dot
RECURSIVE SplitLast(_, _)
SplitLast(s, sep) ==
    IF ~Contains(s, sep) THEN s
    ELSE SplitLast(Suffix(s, Len(SplitFirst(s, sep)) + 2), sep)

\* s.split(): the words of s between its whitespace
RECURSIVE SplitWords(_)
SplitWords(s) ==
    IF s = "" THEN << >>
    ELSE IF IsSpace(CharAt(s, 1)) THEN SplitWords(Suffix(s, 2))
    ELSE LET word == SplitFirst(s, " ")
         IN  << word >> \o SplitWords(Suffix(s, Len(word) + 1))

\* json.dumps(arguments, ensure_ascii=False) of a dict of strings and
\* integers whose strings need no escape
RECURSIVE JsonMembers(_)
JsonMembers(arguments) ==
    IF arguments = << >> THEN ""
    ELSE LET member == Head(arguments)
             value == IF member.v[1] = "str" THEN "\"" \o member.v[2] \o "\""
                      ELSE ToString(member.v[2])
         IN  "\"" \o member.k \o "\": " \o value
                \o (IF Len(arguments) > 1 THEN ", " ELSE "")
                \o JsonMembers(Tail(arguments))
stringify_arguments(arguments) == "{" \o JsonMembers(arguments) \o "}"

\* _format_choice
format_choice(content, function_call, finish_reason) ==
    [index |-> 0,
     message |-> [role |-> "assistant", content |-> content,
                  function_call |-> function_call],
     finish_reason |-> finish_reason]

\* _build_function_call_response, but for the id of _build_base_response
build_function_call_response(name, arguments) ==
    [object |-> "chat.completion",
     choices |-> << format_choice(None,
                                  Some([name |-> name,
                                        arguments |-> stringify_arguments(arguments)]),
                                  "function_call") >>]

\* _build_text_response, but for the id of _build_base_response
build_text_response(content) ==
    [object |-> "chat.completion",
     choices |-> << format_choice(Some(content), None, "stop") >>]

\* turn_on and turn_off of the adapter
adapter_turn_on(entity_id) ==
    build_function_call_response("turn_on", << [k |-> "entity_id", v |-> JStr(entity_id)] >>)
adapter_turn_off(entity_id) ==
    build_function_call_response("turn_off", << [k |-> "entity_id", v |-> JStr(entity_id)] >>)
set_brightness(entity_id, brightness) ==
    build_function_call_response("set_brightness",
                                 << [k |-> "entity_id", v |-> JStr(entity_id)],
                                    [k |-> "brightness", v |-> JInt(brightness)] >>)
open_cover(entity_id) ==
    build_function_call_response("open_cover", << [k |-> "entity_id", v |-> JStr(entity_id)] >>)
close_cover(entity_id) ==
    build_function_call_response("close_cover", << [k |-> "entity_id", v |-> JStr(entity_id)] >>)

\* entity.get("name", default)
NameOr(entity, default) == IF entity.name = None THEN default ELSE Get(entity.name)

\* get_entities_by_state
get_entities_by_state(entities, state) ==
    SelectSeq(entities, LAMBDA entity : Lower(entity.state) = Lower(state))

\* _entity_matches_keywords
entity_matches_keywords(entity, keywords) ==
    LET name == Lower(NameOr(entity, ""))
        identifier == ReplaceChar(SplitLast(Lower(entity.entity_id), "."), "_", " ")
    IN  \E k \in DOMAIN keywords :
            /\ keywords[k] # ""
            /\ Contains(name, keywords[k]) \/ Contains(identifier, keywords[k])

\* variant: the last entity that matches is the one found
find_entity_Last(entities, keywords, domain) ==
    LET matching == {i \in DOMAIN entities :
                        /\ domain # None
                              => entity_classifier_classify_entity(
                                     entities[i].entity_id, entities[i].attributes)
                                 = Get(domain)
                        /\ entity_matches_keywords(entities[i], keywords)}
    IN  IF matching = {} THEN None
        ELSE Some(entities[CHOOSE i \in matching : \A j \in matching : i >= j])

\* _find_entity: the first entity of the domain (any when None) that matches
find_entity(entities, keywords, domain) ==
    LET matching == {i \in DOMAIN entities :
                        /\ domain # None
                              => entity_classifier_classify_entity(
                                     entities[i].entity_id, entities[i].attributes)
                                 = Get(domain)
                        /\ entity_matches_keywords(entities[i], keywords)}
    IN  IF matching = {} THEN None
        ELSE Some(entities[CHOOSE i \in matching : \A j \in matching : i <= j])

\* the words of the lowered text without its question marks that are longer
\* than two characters and not among the stop words
KeywordsOf(lowered, stop_words) ==
    SelectSeq(SplitWords(ReplaceChar(lowered, "?", "")),
              LAMBDA word : word \notin stop_words /\ Len(word) > 2)

\* ", ".join(names)
RECURSIVE JoinNames(_)
JoinNames(names) ==
    IF names = << >> THEN ""
    ELSE IF Len(names) = 1 THEN names[1]
    ELSE names[1] \o ", " \o JoinNames(Tail(names))

\* content of the last message of the user, "" when there is none
UserContent(messages) ==
    LET of_user == {i \in DOMAIN messages : messages[i].role = "user"}
    IN  IF of_user = {} THEN ""
        ELSE messages[CHOOSE i \in of_user : \A j \in of_user : i >= j].content

\* generate_ha_response: the branch of the question about lights that are on
LightStatusAnswer(lowered, entities) ==
    IF /\ Contains(lowered, "welche") \/ Contains(lowered, "was")
       /\ \E word \in {"lampen", "lichter", "licht"} : Contains(lowered, word)
    THEN LET on_lights ==
                 SelectSeq(get_entities_by_state(entities, "on"),
                           LAMBDA entity :
                               entity_classifier_classify_entity(
                                   entity.entity_id, entity.attributes) = "light")
             names == [i \in DOMAIN on_lights |-> NameOr(on_lights[i], on_lights[i].entity_id)]
         IN  Some(IF on_lights # << >>
                  THEN build_text_response("Diese Lichter sind eingeschaltet: "
                                           \o JoinNames(names) \o ".")
                  ELSE build_text_response("Aktuell sind keine Lichter eingeschaltet."))
    ELSE None

\* generate_ha_response: the branch of the temperature questions
TemperatureAnswer(lowered, entities) ==
    IF \E keyword \in {"temperatur", "warm"} : Contains(lowered, keyword)
    THEN LET target_entity == find_entity(entities, KeywordsOf(lowered, {}), None)
         IN  IF /\ target_entity # None
                /\ entity_classifier_classify_entity(Get(target_entity).entity_id,
                                                     Get(target_entity).attributes)
                      \in {"climate", "sensor"}
             THEN Some(build_text_response(
                          "Die Temperatur von "
                          \o NameOr(Get(target_entity), Get(target_entity).entity_id)
                          \o " beträgt " \o Get(target_entity).state \o "."))
             ELSE None
    ELSE None

\* generate_ha_response: the branch of the covers
CoverControl(lowered, entities) ==
    IF \E keyword \in {"rollo", "rolladen", "rollos", "jalousie"} : Contains(lowered, keyword)
    THEN LET keywords == KeywordsOf(lowered, {"mach", "die", "den", "das", "bitte"})
             entity == find_entity(entities, keywords, Some("cover"))
         IN  IF entity = None THEN None
             ELSE IF \E word \in {"runter", "schließ", "zu"} : Contains(lowered, word)
             THEN Some(close_cover(Get(entity).entity_id))
             ELSE Some(open_cover(Get(entity).entity_id))
    ELSE None

\* generate_ha_response: the branch of the lights
LightControl(lowered, entities) ==
    IF \E keyword \in {"schalte", "mach", "dimme", "erhelle"} : Contains(lowered, keyword)
    THEN LET keywords == KeywordsOf(lowered, {"schalte", "mach", "das", "die", "den",
                                              "bitte", "ein", "auf"})
             entity == find_entity(entities, keywords, Some("light"))
         IN  IF entity = None THEN None
             ELSE IF Contains(lowered, "aus") THEN Some(adapter_turn_off(Get(entity).entity_id))
             ELSE IF \E word \in {"heller", "dunkler", "dimme", "helligkeit"} :
                        Contains(lowered, word)
             THEN Some(set_brightness(Get(entity).entity_id, 128))
             ELSE Some(adapter_turn_on(Get(entity).entity_id))
    ELSE None

\* generate_ha_response, but for the id of the response
generate_ha_response(messages, entities) ==
    LET lowered == Lower(UserContent(messages))
    IN  IF LightStatusAnswer(lowered, entities) # None
        THEN Get(LightStatusAnswer(lowered, entities))
        ELSE IF TemperatureAnswer(lowered, entities) # None
        THEN Get(TemperatureAnswer(lowered, entities))
        ELSE IF CoverControl(lowered, entities) # None
        THEN Get(CoverControl(lowered, entities))
        ELSE IF LightControl(lowered, entities) # None
        THEN Get(LightControl(lowered, entities))
        ELSE build_text_response("Ich habe deine Anfrage erhalten, konnte aber "
                                 \o "keine passende Aktion ableiten.")

(***************************************************************************)
(* State                                                                   *)
(***************************************************************************)
VARIABLES
    entities,   \* DiscoveryService._entities: the active snapshot
    last_refresh, \* DiscoveryService._last_refresh: the reading of monotonic()
                \* at the last successful refresh, as the number of that refresh
    loop,       \* where lifespan / _discovery_refresh_loop stands
    history,    \* ConversationContext._history
    req,        \* per request slot: the locals of Processor.process
    received,   \* number of requests received so far
    probe,      \* the input of the specification at hand: a text, a call,
                \* a configuration
    out,        \* what the specification at hand observes: what a function
                \* returned, where a call stands, the clock of the loop
    refresh_frame \* the locals of a running refresh(): states still to visit
                \* and the list filtered built so far

vars == << entities, last_refresh, loop, history, req, received, probe, out,
           refresh_frame >>

\* no refresh() is between the return of fetch_states() and its last line
NoFrame == [states |-> << >>, filtered |-> << >>]

\* the request slots (requests in flight at the same time)
Requests == 1..MaxConcurrent

(***************************************************************************)
(* The collaborators' answers the model draws from.                        *)
(***************************************************************************)
State(entity_id, state, attributes) ==
    [entity_id |-> entity_id, state |-> state, attributes |-> attributes]

\* what fetch_states() may return.  The identifiers of the first two lists
\* have the form domain.object_id Home Assistant gives them; the third list
\* also holds identifiers that equal the search text of another record.
ScenarioStates ==
    << State("light.wohnzimmer", "on", EmptyMap),
       State("light.bad", "off", EmptyMap),
       State("cover.wohnzimmer", "open", EmptyMap) >>
BathroomStates ==
    << State("climate.bad", "heat", << [k |-> "friendly_name", v |-> "Heizung Bad"] >>),
       State("sensor.bad_temperatur", "21.5", EmptyMap),
       State("", "on", EmptyMap),
       State("switch.bad_steckdose", "off", EmptyMap) >>
CollidingStates ==
    << State("light.bad", "off", EmptyMap),
       State("light.bad light.bad", "off", EmptyMap),
       State("climate.bad", "heat", EmptyMap),
       State("climate.bad climate.bad", "heat", EmptyMap),
       State("cover.bad", "open", EmptyMap),
       State("cover.bad cover.bad", "open", EmptyMap) >>
SourceLists == {ScenarioStates, BathroomStates, CollidingStates}

\* the texts of the requests
RequestTexts ==
    {"Schalte das Licht im Bad an",
     "Mach die Rollos im Wohnzimmer runter",
     "Stelle die Temperatur auf 21 Grad",
     "Licht im Bad aus",
     "Licht im Bad auf 50 %",
     "Rollo im Bad schließen",
     "Heizung im Bad auf 21.5 Grad",
     "Heizung im Bad auf 100",
     "Heizung im Bad auf 3",
     "Heizung 3 im Bad auf 22"}

\* what the scorer may return for one choice
Scores == {min_score - 1, min_score, 100}

\* the results of the control plane's callService
ServiceOutcomes == {"ok", "timeout", "http_error"}
\* response.json() of a successful callService
ServiceResult == "changed_states"

\* the parsed replies of the model: tool_name ("" when the reply has none or
\* an empty one) and arguments (None when the reply has none)
Reply(tool_name, arguments) == [tool_name |-> tool_name, arguments |-> arguments]
EntityOnly == << [k |-> "entity_id", v |-> JStr("light.bad")] >>
ModelReplies ==
    {Reply("", None),
     Reply("", Some(EntityOnly)),
     Reply("ha_unknown", Some(EntityOnly)),
     Reply("ha_light_turn_on", None),
     Reply("ha_light_turn_on", Some(EntityOnly)),
     Reply("ha_light_turn_on",
           Some(<< [k |-> "__proto__", v |-> JStr("x")],
                   [k |-> "entity_id", v |-> JStr(" light.bad\n")],
                   [k |-> "color", v |-> JStr("red")] >>)),
     Reply("ha_light_turn_on", Some(<< [k |-> "entity_id", v |-> JNull] >>)),
     Reply("ha_light_turn_on",
           Some(<< [k |-> "entity_id", v |-> JStr("light.bad")],
                   [k |-> "brightness",
                    v |-> JMap(<< [k |-> "__class__", v |-> JInt(1)] >>)] >>)),
     Reply("ha_climate_set_temperature", Some(<< [k |-> "temperature", v |-> JInt(21)] >>)),
     Reply("ha_climate_set_temperature",
           Some(<< [k |-> "entity_id", v |-> JStr("climate.bad")],
                   [k |-> "temperature", v |-> JFloat(215)] >>))}

(***************************************************************************)
(* app/logic/processor.py: Processor.process                               *)
(***************************************************************************)
NoResult ==
    [kind |-> "none", path |-> "", service |-> "", entity_id |-> JNull,
     result |-> "", exception |-> "", message |-> ""]
\* variant: every returned dict carries the tag of the direct path
Returned_AlwaysDirect(path, service, entity_id, result) ==
    [kind |-> "returned", path |-> "direct", service |-> service,
     entity_id |-> entity_id, result |-> result, exception |-> "", message |-> ""]

\* a dict returned by process
Returned(path, service, entity_id, result) ==
    [kind |-> "returned", path |-> path, service |-> service,
     entity_id |-> entity_id, result |-> result, exception |-> "", message |-> ""]
\* an exception raised out of process
Thrown(exception, message) ==
    [kind |-> "raised", path |-> "", service |-> "", entity_id |-> JNull,
     result |-> "", exception |-> exception, message |-> message]

\* a request slot before a request
NewRequest ==
    [pc |-> "idle", text |-> "", route |-> None, turn_off |-> FALSE, tool |-> None,
     snapshot |-> << >>, scores |-> << >>, matches |-> << >>,
     reply |-> None, calls |-> << >>, asks |-> 0, appended |-> 0,
     result |-> NoResult]

\* one callService the processor issued
Call(path, prepared) ==
    [path |-> path, domain |-> prepared.domain, service |-> prepared.service,
     data |-> prepared.data]

\* _handle_llm_path up to its first await: the prompt is built and the model
\* is asked
AskModel(q) == [q EXCEPT !.pc = "ask", !.asks = @ + 1]

\* the request ends: process returns or raises
Finish(q, result) == [q EXCEPT !.pc = "done", !.result = result]

\* variant: the model is asked whatever the search returned
DirectAfterSearch_AsksAnyway(q, matches) == AskModel([q EXCEPT !.matches = matches])

\* _handle_direct_path from the search result on, up to the callService
DirectAfterSearch(q, matches) ==
    LET tool == Get(q.tool)
        entity == matches[1]
        brightness == extract_brightness_pct(q.text)
        temperature == extract_temperature(q.text)
        args0 == << [k |-> "entity_id", v |-> JStr(entity.entity_id)] >>
        args1 == IF tool.name = "ha_light_turn_on" /\ brightness # None
                 THEN MapPut(args0, "brightness_pct", JInt(Get(brightness)))
                 ELSE args0
        args == IF tool.name = "ha_climate_set_temperature" /\ temperature # None
                THEN MapPut(args1, "temperature", JFloat(Get(temperature)))
                ELSE args1
        prepared == prepare_service_payload(tool.name, Some(args))
        found == [q EXCEPT !.matches = matches]
    IN  IF matches = << >> THEN AskModel(found)
        ELSE IF tool.name = "ha_climate_set_temperature" /\ temperature = None
        THEN AskModel(found)
        ELSE IF FirstMissing(tool.required_args, args) # 0 THEN AskModel(found)
        ELSE IF prepared.raised # ""
        THEN Finish(found, Thrown("RuntimeError", "Invalid direct command arguments"))
        ELSE [found EXCEPT !.pc = "call_direct",
                           !.calls = Append(@, Call("direct", prepared))]

\* process(text) up to its first await
Start(text) ==
    LET route == semantic_route(text)
        turn_off == contains_keyword(text, NEGATION_KEYWORDS)
        tool == tool_for_intent(Get(route).intent, turn_off)
        q0 == [NewRequest EXCEPT !.text = text, !.route = route]
        q1 == [q0 EXCEPT !.turn_off = turn_off, !.tool = tool]
    IN  IF route = None THEN AskModel(q0)
        ELSE IF tool = None THEN AskModel(q1)
        \* DiscoveryService.search returns [] at once
        ELSE IF text = "" \/ entities = << >> THEN DirectAfterSearch(q1, << >>)
        \* _search_sync is handed to the executor
        ELSE [q1 EXCEPT !.pc = "search"]

\* the application serves requests once lifespan has refreshed the catalog
Serving == loop \in {"sleep", "fetch", "warned"}

\* a request arrives: process(text) runs to its first await
Receive(r) ==
    /\ Serving
    /\ req[r].pc \in {"idle", "done"}
    /\ received < MaxRequests
    /\ \E text \in RequestTexts : req' = [req EXCEPT ![r] = Start(text)]
    /\ received' = received + 1
    /\ UNCHANGED << entities, last_refresh, loop, history, probe, out, refresh_frame >>

\* the worker thread runs _search_sync on the snapshot it finds
SearchSync(r) ==
    /\ req[r].pc = "search"
    /\ LET domains == {Get(req[r].route).domain}
           choices == Choices(SelectDomains(entities, domains))
       IN  \E scores \in [DOMAIN choices -> Scores] :
              req' = [req EXCEPT ![r] =
                        [@ EXCEPT !.pc = "matched",
                                  !.snapshot = entities,
                                  !.scores = scores,
                                  !.matches = search_sync(entities, 1, domains, scores)]]
    /\ UNCHANGED << entities, last_refresh, loop, history, received, probe, out, refresh_frame >>

\* the await of search returns: _handle_direct_path goes on
DirectResume(r) ==
    /\ req[r].pc = "matched"
    /\ req' = [req EXCEPT ![r] = DirectAfterSearch(@, @.matches)]
    /\ UNCHANGED << entities, last_refresh, loop, history, received, probe, out, refresh_frame >>

\* HomeAssistantAPI.call_service: a timeout or an HTTP error is a RuntimeError
ServiceError(outcome) ==
    IF outcome = "timeout"
    THEN Thrown("RuntimeError", "Home Assistant service call timed out")
    ELSE Thrown("RuntimeError", "Home Assistant service call failed")

\* variant: a failed callService of the direct path falls back to the model
DirectCallReturns_FallsBack(r) ==
    /\ req[r].pc = "call_direct"
    /\ \E outcome \in ServiceOutcomes :
          LET q == req[r]
              call == q.calls[Len(q.calls)]
              entity == q.matches[1]
              entity_domain == classify_entity(entity.entity_id, entity.attributes)
              summary == call.service \o " (" \o entity_domain \o ") -> " \o entity.entity_id
          IN  IF outcome = "ok"
              THEN /\ history' = add_entry(history, q.text, summary)
                   /\ req' = [req EXCEPT ![r] =
                                Finish([q EXCEPT !.appended = @ + 1],
                                       Returned("direct",
                                                call.domain \o "." \o call.service,
                                                JStr(entity.entity_id), ServiceResult))]
              ELSE /\ history' = history
                   /\ req' = [req EXCEPT ![r] = AskModel(q)]
    /\ UNCHANGED << entities, last_refresh, loop, received, probe, out, refresh_frame >>

\* the callService of the direct path returns or fails
DirectCallReturns(r) ==
    /\ req[r].pc = "call_direct"
    /\ \E outcome \in ServiceOutcomes :
          LET q == req[r]
              call == q.calls[Len(q.calls)]
              entity == q.matches[1]
              entity_domain == classify_entity(entity.entity_id, entity.attributes)
              summary == call.service \o " (" \o entity_domain \o ") -> " \o entity.entity_id
          IN  IF outcome = "ok"
              THEN /\ history' = add_entry(history, q.text, summary)
                   /\ req' = [req EXCEPT ![r] =
                                Finish([q EXCEPT !.appended = @ + 1],
                                       Returned("direct",
                                                call.domain \o "." \o call.service,
                                                JStr(entity.entity_id), ServiceResult))]
              ELSE /\ history' = history
                   /\ req' = [req EXCEPT ![r] = Finish(q, ServiceError(outcome))]
    /\ UNCHANGED << entities, last_refresh, loop, received, probe, out, refresh_frame >>

\* ask_ollama fails: transport error, timeout, empty or unparseable reply
ModelFails(r) ==
    /\ req[r].pc = "ask"
    /\ req' = [req EXCEPT ![r] = Finish(@, Thrown("RuntimeError", "Ollama request failed"))]
    /\ UNCHANGED << entities, last_refresh, loop, history, received, probe, out, refresh_frame >>

\* variant: the reply goes to prepare_service_payload without the check of
\* its tool_name
ModelReturns_Unchecked(r) ==
    /\ req[r].pc = "ask"
    /\ \E reply \in ModelReplies :
          LET q == [req[r] EXCEPT !.reply = Some(reply)]
              prepared == prepare_service_payload(reply.tool_name, reply.arguments)
          IN  req' = [req EXCEPT ![r] =
                IF prepared.raised # ""
                THEN Finish(q, Thrown(prepared.raised, prepared.message))
                ELSE [q EXCEPT !.pc = "call_llm",
                               !.calls = Append(@, Call("llm", prepared))]]
    /\ UNCHANGED << entities, last_refresh, loop, history, received, probe, out, refresh_frame >>

\* ask_ollama returns the parsed reply: _handle_llm_path up to the callService
ModelReturns(r) ==
    /\ req[r].pc = "ask"
    /\ \E reply \in ModelReplies :
          LET q == [req[r] EXCEPT !.reply = Some(reply)]
              prepared == prepare_service_payload(reply.tool_name, reply.arguments)
          IN  req' = [req EXCEPT ![r] =
                IF reply.tool_name = ""
                THEN Finish(q, Thrown("RuntimeError", "LLM response missing tool_name"))
                ELSE IF prepared.raised # ""
                THEN Finish(q, Thrown(prepared.raised, prepared.message))
                ELSE [q EXCEPT !.pc = "call_llm",
                               !.calls = Append(@, Call("llm", prepared))]]
    /\ UNCHANGED << entities, last_refresh, loop, history, received, probe, out, refresh_frame >>

\* str(payload.get('entity_id', 'unknown')) for a string or a missing key
EntityIdText(payload) ==
    IF HasKey(payload, "entity_id")
    THEN ContentOf(MapGet(payload, "entity_id"))
    ELSE "unknown"

\* variant: the model path adds its entry before it awaits the callService
LlmCallReturns_AppendsFirst(r) ==
    /\ req[r].pc = "call_llm"
    /\ \E outcome \in ServiceOutcomes :
          LET q == req[r]
              call == q.calls[Len(q.calls)]
              summary == call.service \o " -> " \o EntityIdText(call.data)
          IN  /\ history' = add_entry(history, q.text, summary)
              /\ IF outcome = "ok"
                 THEN req' = [req EXCEPT ![r] =
                                Finish([q EXCEPT !.appended = @ + 1],
                                       Returned("llm",
                                                call.domain \o "." \o call.service,
                                                MapGetOr(call.data, "entity_id", JNull),
                                                ServiceResult))]
                 ELSE req' = [req EXCEPT ![r] = Finish(q, ServiceError(outcome))]
    /\ UNCHANGED << entities, last_refresh, loop, received, probe, out, refresh_frame >>

\* the callService of the model path returns or fails
LlmCallReturns(r) ==
    /\ req[r].pc = "call_llm"
    /\ \E outcome \in ServiceOutcomes :
          LET q == req[r]
              call == q.calls[Len(q.calls)]
              summary == call.service \o " -> " \o EntityIdText(call.data)
          IN  IF outcome = "ok"
              THEN /\ history' = add_entry(history, q.text, summary)
                   /\ req' = [req EXCEPT ![r] =
                                Finish([q EXCEPT !.appended = @ + 1],
                                       Returned("llm",
                                                call.domain \o "." \o call.service,
                                                MapGetOr(call.data, "entity_id", JNull),
                                                ServiceResult))]
              ELSE /\ history' = history
                   /\ req' = [req EXCEPT ![r] = Finish(q, ServiceError(outcome))]
    /\ UNCHANGED << entities, last_refresh, loop, received, probe, out, refresh_frame >>

\* routes.process_text: the HTTP status of a finished request
HttpStatus(result) ==
    IF result.kind = "returned" THEN 200
    ELSE IF result.exception = "RuntimeError" THEN 400
    ELSE 500

(***************************************************************************)
(* app/main.py: lifespan and _discovery_refresh_loop, with                 *)
(* DiscoveryService.refresh                                                *)
(***************************************************************************)
\* refresh() after a successful fetch_states(): the new list is built and
\* installed
Refreshed(states) == FilterStates(states, << >>, cache_max_entities)

\* the snapshots refresh() can install: one for each list fetch_states() may
\* return
Snapshots == {Refreshed(states) : states \in SourceLists}

\* lifespan: the first refresh succeeds and the application starts serving
StartupRefresh ==
    /\ loop = "startup"
    /\ \E snapshot \in Snapshots : entities' = snapshot
    /\ last_refresh' = last_refresh + 1
    /\ loop' = "sleep"
    /\ UNCHANGED << history, req, received, probe, out, refresh_frame >>

\* lifespan: the first refresh fails, the application does not start
StartupFails ==
    /\ loop = "startup"
    /\ loop' = "failed"
    /\ UNCHANGED << entities, last_refresh, history, req, received, probe, out, refresh_frame >>

\* _discovery_refresh_loop: the sleep is over, refresh() awaits fetch_states()
LoopWakes ==
    /\ loop \in {"sleep", "warned"}
    /\ last_refresh < MaxRefreshes
    /\ loop' = "fetch"
    /\ UNCHANGED << entities, last_refresh, history, req, received, probe, out, refresh_frame >>

\* fetch_states() returns and refresh() installs the new snapshot
LoopRefreshes ==
    /\ loop = "fetch"
    /\ \E snapshot \in Snapshots : entities' = snapshot
    /\ last_refresh' = last_refresh + 1
    /\ loop' = "sleep"
    /\ UNCHANGED << history, req, received, probe, out, refresh_frame >>

\* variant: a failed fetch leaves an empty snapshot behind
LoopRefreshFails_Clears ==
    /\ loop = "fetch"
    /\ loop' = "warned"
    /\ entities' = << >>
    /\ UNCHANGED << last_refresh, history, req, received, probe, out, refresh_frame >>

\* fetch_states() fails: refresh() raises, the loop logs the warning ("warned")
\* and sleeps again
LoopRefreshFails ==
    /\ loop = "fetch"
    /\ loop' = "warned"
    /\ UNCHANGED << entities, last_refresh, history, req, received, probe, out, refresh_frame >>

Init ==
    /\ entities = << >>
    /\ last_refresh = 0
    /\ loop = "startup"
    /\ history = << >>
    /\ req = [r \in Requests |-> NewRequest]
    /\ received = 0
    /\ probe = ""
    /\ out = [done |-> FALSE]
    /\ refresh_frame = NoFrame

Next ==
    \/ StartupRefresh
    \/ StartupFails
    \/ \E r \in Requests : Receive(r)
    \/ \E r \in Requests : SearchSync(r)
    \/ \E r \in Requests : DirectResume(r)
    \/ \E r \in Requests : DirectCallReturns(r)
    \/ \E r \in Requests : ModelFails(r)
    \/ \E r \in Requests : ModelReturns(r)
    \/ \E r \in Requests : LlmCallReturns(r)

Spec == Init /\ [][Next]_vars

\* the requests interleaved with the background refresh loop
NextRefresh ==
    \/ Next
    \/ LoopWakes
    \/ LoopRefreshes
    \/ LoopRefreshFails

SpecRefresh == Init /\ [][NextRefresh]_vars

(***************************************************************************)
(* Text-function specification: the pure functions of the router and of    *)
(* the processor applied to texts made of a few pieces.                    *)
(***************************************************************************)
Pieces ==
    {"aus", "gezeichnet", "AUS", " ", "-", "_", "schließen", "Licht",
     "rollo", "heizung", "schalte", "tv", "1", "0", "2", ".", "%"}

RECURSIVE TextsOf(_)
TextsOf(n) ==
    IF n = 0 THEN {""}
    ELSE LET shorter == TextsOf(n - 1)
         IN  shorter \cup {t \o p : t \in shorter, p \in Pieces}

ProbeTexts == TextsOf(MaxPieces)

NotEvaluated == [done |-> FALSE]

InitText ==
    /\ probe \in ProbeTexts
    /\ out = NotEvaluated
    /\ refresh_frame = NoFrame
    /\ entities = << >>
    /\ last_refresh = 0
    /\ loop = "startup"
    /\ history = << >>
    /\ req = [r \in Requests |-> NewRequest]
    /\ received = 0

Evaluate ==
    /\ out = NotEvaluated
    /\ out' = [done |-> TRUE,
               route |-> semantic_route(probe),
               negation |-> contains_keyword(probe, NEGATION_KEYWORDS),
               tool |-> IF semantic_route(probe) = None THEN None
                        ELSE tool_for_intent(Get(semantic_route(probe)).intent,
                                             contains_keyword(probe, NEGATION_KEYWORDS)),
               brightness |-> extract_brightness_pct(probe),
               temperature |-> extract_temperature(probe)]
    /\ UNCHANGED << probe, entities, last_refresh, loop, history, req, received, refresh_frame >>

NextText == Evaluate

SpecText == InitText /\ [][NextText]_vars

(***************************************************************************)
(* Argument specification: sanitize_tool_arguments and                     *)
(* prepare_service_payload applied to argument dicts of a few entries.     *)
(***************************************************************************)
\* a value of a type _sanitize_value does not support
JOther == << "bytes", "x" >>

\* MaxElements + 1 distinct keys
WideKeys ==
    << "k01", "k02", "k03", "k04", "k05", "k06", "k07", "k08", "k09", "k10", "k11",
       "k12", "k13", "k14", "k15", "k16", "k17", "k18", "k19", "k20", "k21" >>

\* a list and a dict one element longer than _sanitize_value keeps, and the
\* same with an unsupported value or an unsafe key as their last element
LongList == JList([i \in 1..MaxElements + 1 |-> JInt(i)])
LongListNullTail ==
    JList([i \in 1..MaxElements + 1 |-> IF i > MaxElements THEN JNull ELSE JInt(i)])
LongMapUnsafeTail ==
    JMap([i \in 1..MaxElements + 1 |->
            [k |-> IF i > MaxElements THEN "__x" ELSE WideKeys[i], v |-> JInt(i)]])

\* the values of the argument dicts
ProbeValues ==
    {JStr(" light.bad\n"), JInt(21), JNull, JOther, LongList, LongListNullTail,
     JList(<< JStr("a"), JMap(<< [k |-> "__class__", v |-> JInt(1)] >>) >>),
     JList(<< JInt(1), JNull >>),
     LongMapUnsafeTail,
     JMap(<< [k |-> "mode", v |-> JStr("x")], [k |-> "__class__", v |-> JInt(1)] >>)}

\* the keys of the argument dicts
ProbeKeys == {"entity_id", "temperature", "__proto__"}

\* the dicts of n entries with distinct keys, in every order
RECURSIVE ArgsOf(_)
ArgsOf(n) ==
    IF n = 0 THEN {EmptyMap}
    ELSE {Append(args, [k |-> key, v |-> value]) :
            args \in {a \in ArgsOf(n - 1) : Len(a) = n - 1},
            key \in ProbeKeys, value \in ProbeValues}

\* a dict is a dict: no key twice
DistinctKeys(args) == \A i, j \in DOMAIN args : args[i].k = args[j].k => i = j

\* a dict with MaxElements + 1 entries, each under its own key
WideArgs == [i \in 1..MaxElements + 1 |-> [k |-> WideKeys[i], v |-> JInt(i)]]

\* the dict of the scenario: an entity and a reserved key
ScenarioArgs ==
    << [k |-> "entity_id", v |-> JStr("light.bad")],
       [k |-> "__proto__", v |-> JStr("x")] >>

\* the calls: a tool name, the allowed keys handed to sanitize_tool_arguments
\* and the raw arguments (None when there are none)
ArgCall(tool_name, allowed_keys, args) ==
    [tool_name |-> tool_name, allowed_keys |-> allowed_keys, args |-> args]

ProbeTools ==
    {<< "ha_light_turn_on", << "entity_id", "brightness", "brightness_pct", "color_temp" >> >>,
     << "ha_climate_set_temperature", << "entity_id", "temperature" >> >>,
     << "ha_unknown", << "entity_id" >> >>}

ProbeCalls ==
    {ArgCall(tool[1], tool[2], Some(args)) :
        tool \in ProbeTools,
        args \in {a \in UNION {ArgsOf(n) : n \in 0..MaxArgs} : DistinctKeys(a)}}
    \cup {ArgCall(tool[1], tool[2], None) : tool \in ProbeTools}
    \cup {ArgCall("ha_unknown", WideKeys, Some(WideArgs)),
          ArgCall("ha_unknown", << >>, Some(EmptyMap)),
          ArgCall("ha_light_turn_off", << "entity_id" >>, Some(ScenarioArgs))}

InitArgs ==
    /\ probe \in ProbeCalls
    /\ out = NotEvaluated
    /\ refresh_frame = NoFrame
    /\ entities = << >>
    /\ last_refresh = 0
    /\ loop = "startup"
    /\ history = << >>
    /\ req = [r \in Requests |-> NewRequest]
    /\ received = 0

\* the two functions are applied to the call
Sanitize ==
    /\ out = NotEvaluated
    /\ out' = [done |-> TRUE,
               sanitized |-> sanitize_tool_arguments(probe.args, probe.allowed_keys),
               prepared |-> prepare_service_payload(probe.tool_name, probe.args)]
    /\ UNCHANGED << probe, entities, last_refresh, loop, history, req, received, refresh_frame >>

NextArgs == Sanitize

SpecArgs == InitArgs /\ [][NextArgs]_vars

(***************************************************************************)
(* Catalog specification: the loop of DiscoveryService.refresh applied to  *)
(* short lists of states under small configured caps.                      *)
(***************************************************************************)
\* the states the lists are made of: controllable entities, entities of
\* ignored domains and a state without identifier
PoolStates ==
    {State("light.bad", "off", EmptyMap),
     State("climate.bad", "heat", << [k |-> "friendly_name", v |-> "Heizung Bad"] >>),
     State("sensor.bad_temperatur", "21.5", EmptyMap),
     State("person.lukas", "home", EmptyMap),
     State("", "on", EmptyMap)}

\* the lists of up to n states
RECURSIVE StateListsOf(_)
StateListsOf(n) ==
    IF n = 0 THEN {<< >>}
    ELSE LET shorter == StateListsOf(n - 1)
         IN  shorter \cup {Append(states, state) : states \in shorter, state \in PoolStates}

\* a refresh: what fetch_states() returns and the configured cache_max_entities
ProbeRefreshes ==
    [states : StateListsOf(MaxStates), cache_max_entities : 0..MaxStates]

InitCatalog ==
    /\ probe \in ProbeRefreshes
    /\ out = NotEvaluated
    /\ refresh_frame = NoFrame
    /\ entities = << >>
    /\ last_refresh = 0
    /\ loop = "startup"
    /\ history = << >>
    /\ req = [r \in Requests |-> NewRequest]
    /\ received = 0

\* refresh() builds its list from the states under the configured cap
BuildSnapshot ==
    /\ out = NotEvaluated
    /\ out' = [done |-> TRUE,
               entities |-> FilterStates(probe.states, << >>, probe.cache_max_entities)]
    /\ UNCHANGED << probe, entities, last_refresh, loop, history, req, received, refresh_frame >>

NextCatalog == BuildSnapshot

SpecCatalog == InitCatalog /\ [][NextCatalog]_vars

(***************************************************************************)
(* Snapshot specification: one call of search or get_context_entities      *)
(* beside the refresh loop, the body of refresh() taken statement by       *)
(* statement.  The coroutines share the event loop, so a call starts only   *)
(* where refresh() awaits; _search_sync runs in a worker thread and may     *)
(* read self._entities between any two statements of refresh().             *)
(***************************************************************************)
\* the calls: the operation and its arguments (domains {} is None)
SnapshotCalls ==
    [op : {"search"}, query : {"", "bad"}, limit : {1, 2},
     domains : {{}, {"light"}, {"climate", "cover"}}]
    \cup [op : {"get_context_entities"}, query : {""}, limit : {0, 1, 5},
          domains : {{}, {"light"}, {"climate", "cover"}}]

\* the call has not started
NotCalled == [pc |-> "idle", snapshot |-> << >>, during |-> "", returned |-> << >>]

\* the call read the list `snapshot` from self._entities while the refresh
\* loop stood at `during`, and returned
CallReturned(snapshot, returned) ==
    [pc |-> "done", snapshot |-> snapshot, during |-> loop, returned |-> returned]

InitSnapshot ==
    /\ probe \in SnapshotCalls
    /\ out = NotCalled
    /\ refresh_frame = NoFrame
    /\ entities = << >>
    /\ last_refresh = 0
    /\ loop = "startup"
    /\ history = << >>
    /\ req = [r \in Requests |-> NewRequest]
    /\ received = 0

\* search up to its await: [] at once for an empty query or an empty list,
\* else _search_sync is handed to the executor
SearchCalled ==
    /\ Serving
    /\ probe.op = "search"
    /\ out.pc = "idle"
    /\ out' = IF probe.query = "" \/ entities = << >>
              THEN CallReturned(entities, << >>)
              ELSE [NotCalled EXCEPT !.pc = "search"]
    /\ UNCHANGED << probe, entities, last_refresh, loop, history, req, received, refresh_frame >>

\* the worker thread runs _search_sync: it reads self._entities once
WorkerSearches ==
    /\ out.pc = "search"
    /\ LET choices == Choices(SelectDomains(entities, probe.domains))
       IN  \E scores \in [DOMAIN choices -> Scores] :
              out' = CallReturned(entities,
                              search_sync(entities, probe.limit, probe.domains, scores))
    /\ UNCHANGED << probe, entities, last_refresh, loop, history, req, received, refresh_frame >>

\* get_context_entities has no await: it runs between two awaits of refresh()
ContextCalled ==
    /\ Serving
    /\ probe.op = "get_context_entities"
    /\ out.pc = "idle"
    /\ out' = CallReturned(entities,
                       get_context_entities(entities, probe.limit, probe.domains))
    /\ UNCHANGED << probe, entities, last_refresh, loop, history, req, received, refresh_frame >>

\* refresh(): fetch_states() returns, filtered is the empty list
LoopFetched ==
    /\ loop = "fetch"
    /\ \E states \in SourceLists :
          refresh_frame' = [states |-> states, filtered |-> << >>]
    /\ loop' = "build"
    /\ UNCHANGED << entities, last_refresh, history, req, received, probe, out >>

\* one pass of the loop of refresh() over the states
VisitState(frame) ==
    LET state == Head(frame.states)
    IN  IF state.entity_id = "" THEN [frame EXCEPT !.states = Tail(@)]
        ELSE IF classify(state.entity_id, state.attributes) \in IGNORED_DOMAINS
        THEN [frame EXCEPT !.states = Tail(@)]
        ELSE LET longer == Append(frame.filtered, EntityRecord(state))
             IN  IF Len(longer) >= cache_max_entities
                 THEN [states |-> << >>, filtered |-> longer]
                 ELSE [states |-> Tail(frame.states), filtered |-> longer]

\* variant: the loop builds the new list in self._entities itself
LoopVisits_InPlace ==
    /\ loop = "build"
    /\ refresh_frame.states # << >>
    /\ refresh_frame' = VisitState(refresh_frame)
    /\ entities' = refresh_frame'.filtered
    /\ UNCHANGED << last_refresh, loop, history, req, received, probe, out >>

\* refresh(): the loop visits the next state; the list it builds is its own
LoopVisits ==
    /\ loop = "build"
    /\ refresh_frame.states # << >>
    /\ refresh_frame' = VisitState(refresh_frame)
    /\ UNCHANGED << entities, last_refresh, loop, history, req, received, probe, out >>

\* refresh(): the loop is over, the list is installed and the time recorded
LoopInstalls ==
    /\ loop = "build"
    /\ refresh_frame.states = << >>
    /\ entities' = refresh_frame.filtered
    /\ last_refresh' = last_refresh + 1
    /\ refresh_frame' = NoFrame
    /\ loop' = "sleep"
    /\ UNCHANGED << history, req, received, probe, out >>

NextSnapshot ==
    \/ StartupRefresh
    \/ StartupFails
    \/ LoopWakes
    \/ LoopFetched
    \/ LoopVisits
    \/ LoopInstalls
    \/ LoopRefreshFails
    \/ SearchCalled
    \/ WorkerSearches
    \/ ContextCalled

SpecSnapshot == InitSnapshot /\ [][NextSnapshot]_vars

(***************************************************************************)
(* Context specification: requests in flight at the same time, each at its *)
(* await of call_service, on a conversation context that is full or one    *)
(* entry short of full.                                                    *)
(***************************************************************************)
\* the request slots of this specification
ContextRequests == 1..MaxInFlight

\* a request at its await of call_service: the path it took, its text and
\* the summary it built for the context
InFlight(path, text, summary) ==
    [pc |-> path, text |-> text, summary |-> summary, appended |-> 0]
InFlightRequests ==
    {InFlight("call_direct", "Licht im Bad aus", "turn_off (light) -> light.bad"),
     InFlight("call_llm", "Guten Morgen", "turn_on -> light.bad"),
     InFlight("call_llm", "Mach irgendwas", "turn_on -> unknown")}

\* no request in the slot
NoRequest == [pc |-> "idle", text |-> "", summary |-> "", appended |-> 0]

\* the context after n earlier requests, each with its own text
PastHistory(n) ==
    [i \in 1..n |-> [user_text |-> "request " \o ToString(i),
                     action_summary |-> "turn_on -> light.bad"]]

InitContext ==
    /\ history \in {PastHistory(max_length - 1), PastHistory(max_length)}
    /\ entities = Refreshed(CollidingStates)
    /\ last_refresh = 1
    /\ loop = "sleep"
    /\ req = [r \in ContextRequests |-> NoRequest]
    /\ received = 0
    /\ probe = ""
    /\ out = [done |-> FALSE]
    /\ refresh_frame = NoFrame

\* a request reaches its await of call_service
AwaitsService(r) ==
    /\ req[r].pc = "idle"
    /\ \E request \in InFlightRequests : req' = [req EXCEPT ![r] = request]
    /\ received' = received + 1
    /\ UNCHANGED << entities, last_refresh, loop, history, probe, out, refresh_frame >>

\* call_service returns and the request adds its entry, or it fails and the
\* request ends
ServiceReturns(r) ==
    /\ req[r].pc \in {"call_direct", "call_llm"}
    /\ \E outcome \in ServiceOutcomes :
          IF outcome = "ok"
          THEN /\ history' = add_entry(history, req[r].text, req[r].summary)
               /\ req' = [req EXCEPT ![r] = [@ EXCEPT !.pc = "done", !.appended = 1]]
          ELSE /\ history' = history
               /\ req' = [req EXCEPT ![r] = [@ EXCEPT !.pc = "done"]]
    /\ UNCHANGED << entities, last_refresh, loop, received, probe, out, refresh_frame >>

NextContext ==
    \/ \E r \in ContextRequests : AwaitsService(r)
    \/ \E r \in ContextRequests : ServiceReturns(r)

SpecContext == InitContext /\ [][NextContext]_vars

(***************************************************************************)
(* Timer specification: lifespan and _discovery_refresh_loop on a clock,   *)
(* under a configured discovery_refresh_seconds.                           *)
(***************************************************************************)
\* the configured values of discovery_refresh_seconds
RefreshSettings == {-5, 0, 29, 30, 31}

\* delay of _discovery_refresh_loop, written outright
RefreshDelay_AsConfigured(discovery_refresh_seconds) == discovery_refresh_seconds

\* delay of _discovery_refresh_loop
RefreshDelay(discovery_refresh_seconds) == Max(30, discovery_refresh_seconds)

\* the clock: the time, the time the running sleep ends at the earliest,
\* the time the last refresh() was called (None before the first)
Clock(now, wake_at, attempt_at) ==
    [now |-> now, wake_at |-> wake_at, attempt_at |-> attempt_at]

InitTimer ==
    /\ probe \in [discovery_refresh_seconds : RefreshSettings]
    /\ out = Clock(0, 0, None)
    /\ refresh_frame = NoFrame
    /\ entities = << >>
    /\ last_refresh = 0
    /\ loop = "startup"
    /\ history = << >>
    /\ req = [r \in Requests |-> NewRequest]
    /\ received = 0

\* time passes, whatever the loop is waiting for
Tick ==
    /\ out.now < MaxTime
    /\ out' = [out EXCEPT !.now = @ + 1]
    /\ UNCHANGED << probe, entities, last_refresh, loop, history, req, received, refresh_frame >>

\* lifespan calls refresh(), which awaits fetch_states()
TimedStartupCalls ==
    /\ loop = "startup"
    /\ out' = [out EXCEPT !.attempt_at = Some(out.now)]
    /\ loop' = "starting"
    /\ UNCHANGED << probe, entities, last_refresh, history, req, received, refresh_frame >>

\* the first refresh installs its snapshot; the loop's task is created and
\* runs to its first sleep
TimedStartupRefresh ==
    /\ loop = "starting"
    /\ \E snapshot \in Snapshots : entities' = snapshot
    /\ last_refresh' = last_refresh + 1
    /\ out' = [out EXCEPT !.wake_at = out.now + RefreshDelay(probe.discovery_refresh_seconds)]
    /\ loop' = "sleep"
    /\ UNCHANGED << probe, history, req, received, refresh_frame >>

\* the first refresh fails, the application does not start
TimedStartupFails ==
    /\ loop = "starting"
    /\ loop' = "failed"
    /\ UNCHANGED << probe, out, entities, last_refresh, history, req, received, refresh_frame >>

\* asyncio.sleep(delay) is over, not before its time: refresh() is called
TimedLoopWakes ==
    /\ loop \in {"sleep", "warned"}
    /\ out.now >= out.wake_at
    /\ out' = [out EXCEPT !.attempt_at = Some(out.now)]
    /\ loop' = "fetch"
    /\ UNCHANGED << probe, entities, last_refresh, history, req, received, refresh_frame >>

\* refresh() returns with its snapshot installed; the loop sleeps again
TimedLoopRefreshes ==
    /\ loop = "fetch"
    /\ \E snapshot \in Snapshots : entities' = snapshot
    /\ last_refresh' = last_refresh + 1
    /\ out' = [out EXCEPT !.wake_at = out.now + RefreshDelay(probe.discovery_refresh_seconds)]
    /\ loop' = "sleep"
    /\ UNCHANGED << probe, history, req, received, refresh_frame >>

\* refresh() raises: the loop logs a warning and sleeps again
TimedLoopRefreshFails ==
    /\ loop = "fetch"
    /\ out' = [out EXCEPT !.wake_at = out.now + RefreshDelay(probe.discovery_refresh_seconds)]
    /\ loop' = "warned"
    /\ UNCHANGED << probe, entities, last_refresh, history, req, received, refresh_frame >>

NextTimer ==
    \/ Tick
    \/ TimedStartupCalls
    \/ TimedStartupRefresh
    \/ TimedStartupFails
    \/ TimedLoopWakes
    \/ TimedLoopRefreshes
    \/ TimedLoopRefreshFails

SpecTimer == InitTimer /\ [][NextTimer]_vars

(***************************************************************************)
(* Classifier specification: DeviceClassifier.classify applied to          *)
(* identifiers and device_class attributes of every kind.                  *)
(***************************************************************************)
\* identifiers: empty, without a dot, with a prefix that is an alias, a
\* canonical domain, neither, in upper case, and with aliases inside
ProbeIdentifiers ==
    {"", "nodot", "light.bad", "lampe.flur", "climate.bad", "lock.door",
     "binary_sensor.door", "sensor.lampe_licht", "Zone.Home", "foo.bar",
     "foo.tv_room", "x.blind_lamp", "Switch.Plug", "unknown.thing"}

\* the attributes: no device_class, or one that is empty, an alias, an alias
\* in another spelling, a canonical domain, or neither
ProbeAttributes ==
    {EmptyMap}
    \cup {<< [k |-> "device_class", v |-> device_class] >> :
            device_class \in {"", "outlet", " Licht ", "lock", "sensor", "door",
                              "unknown"}}

ProbeEntities == [entity_id : ProbeIdentifiers, attributes : ProbeAttributes]

InitClassify ==
    /\ probe \in ProbeEntities
    /\ out = NotEvaluated
    /\ refresh_frame = NoFrame
    /\ entities = << >>
    /\ last_refresh = 0
    /\ loop = "startup"
    /\ history = << >>
    /\ req = [r \in Requests |-> NewRequest]
    /\ received = 0

Classify ==
    /\ out = NotEvaluated
    /\ out' = [done |-> TRUE, domain |-> classify(probe.entity_id, probe.attributes)]
    /\ UNCHANGED << probe, entities, last_refresh, loop, history, req, received, refresh_frame >>

NextClassify == Classify

SpecClassify == InitClassify /\ [][NextClassify]_vars

(***************************************************************************)
(* Adapter specification: generate_ha_response applied to a few            *)
(* conversations and entity lists.                                         *)
(***************************************************************************)
Entity(entity_id, state, name) ==
    [entity_id |-> entity_id, state |-> state, name |-> name, attributes |-> EmptyMap]

\* ENTITIES of tests/test_openai_ha_adapter.py
TestEntities ==
    << Entity("light.wohnzimmer", "on", Some("Wohnzimmerlampe")),
       Entity("light.bad", "off", Some("Deckenlampe Bad")),
       Entity("cover.wohnzimmer", "open", Some("Rollo Wohnzimmer")),
       Entity("sensor.schlafzimmer_temperature", "21", Some("Schlafzimmer Temperatur")) >>

\* a switch with the name of a cover before two covers, the second without
\* a name, and a cover whose identifier is written in upper case
CoverEntities ==
    << Entity("switch.rollo_motor", "off", Some("Rollo Motor Bad")),
       Entity("cover.bad", "closed", Some("Rollo Bad")),
       Entity("cover.rollo_kueche", "open", None),
       Entity("COVER.Bad_Fenster", "open", Some("Jalousie Bad Fenster")),
       Entity("light.bad", "on", None) >>

ProbeEntityLists == {<< >>, TestEntities, CoverEntities}

User(content) == << [role |-> "user", content |-> content] >>
ProbeConversations ==
    {User(content) :
        content \in {"Mach die Rollos im Wohnzimmer runter",
                     "Rollo Wohnzimmer hoch",
                     "Jalousie Bad schließen",
                     "Mach bitte das Rollo im Bad auf",
                     "Rollo Bad zumachen?",
                     "Rollos im Keller runter",
                     "Rolladen Küche hoch fahren",
                     "Was ist mit Licht und Rollo im Bad",
                     "Wie warm ist es am Rollo im Schlafzimmer?",
                     "Wie warm ist es am Rollo im Bad",
                     "Schalte das Licht im Bad an",
                     "Mach die Lampe im Bad aus",
                     "Dimme die Deckenlampe",
                     "Welche Lampen sind an?",
                     "Guten Morgen",
                     ""}}
    \cup {<< >>,
          User("Rollo Bad hoch") \o << [role |-> "assistant", content |-> "Rollo Wohnzimmer runter"] >>,
          User("Rollo Bad hoch") \o User("Rollo Wohnzimmer runter")}

ProbeAdapterCalls == [messages : ProbeConversations, entities : ProbeEntityLists]

\* str(uuid.uuid4()) of _build_base_response
ResponseIds == {"uuid-a", "uuid-b"}

InitAdapter ==
    /\ probe \in ProbeAdapterCalls
    /\ out = NotEvaluated
    /\ refresh_frame = NoFrame
    /\ entities = << >>
    /\ last_refresh = 0
    /\ loop = "startup"
    /\ history = << >>
    /\ req = [r \in Requests |-> NewRequest]
    /\ received = 0

Respond ==
    /\ out = NotEvaluated
    /\ \E id \in ResponseIds :
          out' = [done |-> TRUE, id |-> id,
                  response |-> generate_ha_response(probe.messages, probe.entities)]
    /\ UNCHANGED << probe, entities, last_refresh, loop, history, req, received, refresh_frame >>

NextAdapter == Respond

SpecAdapter == InitAdapter /\ [][NextAdapter]_vars

(***************************************************************************)
(* Properties                                                              *)
(***************************************************************************)
Finished(q) == q.pc = "done"
\* the request issued a callService on the given path
Dispatched(q, path) == \E i \in DOMAIN q.calls : q.calls[i].path = path
\* the catalog of the scenarios: light.wohnzimmer, light.bad, cover.wohnzimmer
ScenarioCatalog == Refreshed(ScenarioStates)
\* the elements of a sequence
Range(seq) == {seq[i] : i \in DOMAIN seq}

\* the call is one the registry permits: the domain and service of a
\* registered capability, only allowed argument names, every required one
PermittedCall(call) ==
    \E i \in DOMAIN TOOL_DEFINITIONS :
        LET definition == TOOL_DEFINITIONS[i]
        IN  /\ call.domain = definition.domain
            /\ call.service = definition.service
            /\ Keys(call.data) \subseteq Range(definition.allowed_args)
            /\ Range(definition.required_args) \subseteq Keys(call.data)

\* C1: every callService issued by process(text), on the direct or on the
\* model path, uses the (domain, service) of a registered capability, only
\* argument names that capability allows, and every argument name it requires.
C1_DispatchWithinRegistry ==
    \A r \in Requests : \A i \in DOMAIN req[r].calls : PermittedCall(req[r].calls[i])

\* C1 witness: the model proposed arguments with names outside the allowed
\* set and the request dispatched
C1_Witness ==
    \E r \in Requests :
        /\ Dispatched(req[r], "llm")
        /\ req[r].reply # None
        /\ Get(req[r].reply).arguments # None
        /\ HasKey(Get(Get(req[r].reply).arguments), "color")

\* the direct path of the request failed before dispatching
DirectFailed(q) ==
    \/ q.tool = None
    \/ q.matches = << >>
    \/ /\ Get(q.tool).name = "ha_climate_set_temperature"
       /\ extract_temperature(q.text) = None

\* C2: the model is asked only when the router returned none or the direct
\* path failed before dispatching; a request that dispatched on the direct
\* path never asks the model; a request issues at most one callService and at
\* most one model call.
C2_ModelOnlyAfterDirectFailure ==
    \A r \in Requests :
        LET q == req[r]
        IN  /\ q.asks <= 1
            /\ Len(q.calls) <= 1
            /\ q.asks = 1 => q.route = None \/ DirectFailed(q)
            /\ Dispatched(q, "direct") => q.asks = 0

\* C2 witness: a request that dispatched on the direct path has finished
C2_Witness ==
    \E r \in Requests :
        Finished(req[r]) /\ Dispatched(req[r], "direct") /\ req[r].asks = 0

\* preparing the dispatch of the model's proposal failed
PrepareFailed(q) ==
    /\ q.reply # None
    /\ Get(q.reply).tool_name # ""
    /\ prepare_service_payload(Get(q.reply).tool_name, Get(q.reply).arguments).raised # ""

\* C3: a sanitization or validation failure while preparing a dispatch ends
\* the request with a soft response, never with an error raised out of
\* process(text), and nothing is dispatched.
C3_PrepareFailureIsSoft ==
    \A r \in Requests :
        Finished(req[r]) /\ PrepareFailed(req[r])
            => req[r].result.kind = "returned" /\ req[r].calls = << >>

\* the model was asked and its reply carries no action name
NoActionName(q) == q.reply # None /\ Get(q.reply).tool_name = ""

\* C4 as stated: a model reply without an action name is answered with an
\* acknowledgment, not an error; nothing is dispatched, the context is unchanged.
C4_NoActionNameIsAcknowledged ==
    \A r \in Requests :
        Finished(req[r]) /\ NoActionName(req[r])
            => /\ req[r].result.kind = "returned"
               /\ req[r].calls = << >>
               /\ req[r].appended = 0

\* C4 amended: a model reply without an action name makes process(text) raise
\* the RuntimeError "LLM response missing tool_name", which /process answers
\* with status 400; nothing is dispatched and the context is unchanged.
C4_NoActionNameRaises ==
    [][\A r \in Requests :
          req[r].pc = "ask" /\ Finished(req'[r]) /\ NoActionName(req'[r])
            => /\ req'[r].result = Thrown("RuntimeError", "LLM response missing tool_name")
               /\ HttpStatus(req'[r].result) = 400
               /\ req'[r].calls = << >>
               /\ req'[r].appended = 0
               /\ history' = history]_vars

\* C4 witness: a request finished on a model reply without an action name
C4_Witness ==
    \E r \in Requests : Finished(req[r]) /\ NoActionName(req[r])

\* C5: a callService failure after the direct path matched an entity is
\* raised out of process(text); the request does not ask the model, the
\* dispatch is not repeated, the context gets no entry.
C5_DirectServiceFailureIsFatal ==
    [][\A r \in Requests :
          req[r].pc = "call_direct" /\ req'[r].result.kind # "returned" /\ req'[r] # req[r]
            => /\ Finished(req'[r])
               /\ req'[r].result.kind = "raised"
               /\ req'[r].result.exception = "RuntimeError"
               /\ req'[r].asks = 0
               /\ req'[r].calls = req[r].calls
               /\ Len(req'[r].calls) = 1
               /\ req'[r].appended = 0
               /\ history' = history]_vars

\* C5 witness: a request whose direct dispatch failed has finished
C5_Witness ==
    \E r \in Requests :
        /\ Finished(req[r])
        /\ Dispatched(req[r], "direct")
        /\ req[r].result.kind = "raised"

\* C6: with the scenario catalog, "Mach die Rollos im Wohnzimmer runter"
\* routes to the cover domain, is detected as a negation, resolves to
\* ha_cover_close, and when the search returns cover.wohnzimmer dispatches
\* cover.close_cover on it.
C6_RollosRunterCloses ==
    \A r \in Requests :
        LET q == req[r]
        IN  q.text = "Mach die Rollos im Wohnzimmer runter" /\ entities = ScenarioCatalog
            => /\ q.route # None /\ Get(q.route).domain = "cover"
               /\ q.turn_off
               /\ q.tool # None /\ Get(q.tool).name = "ha_cover_close"
               /\ \A i \in DOMAIN q.calls :
                    q.calls[i].path = "direct"
                        => /\ q.calls[i].domain = "cover"
                           /\ q.calls[i].service = "close_cover"
                           /\ MapGet(q.calls[i].data, "entity_id") = JStr("cover.wohnzimmer")

\* the scorer ranked the i-th choice first, with a score that passes min_score
RankedFirst(scores, i) ==
    /\ i \in DOMAIN scores
    /\ scores[i] >= min_score
    /\ \A j \in DOMAIN scores : j # i => scores[j] < scores[i]

C8_PathTagDirectOrFallback ==
    \A r \in Requests :
        Finished(req[r]) /\ req[r].result.kind = "returned"
            => /\ req[r].result.path \in {"direct", "fallback"}
               /\ req[r].result.path = "direct" <=> Dispatched(req[r], "direct")
               /\ req[r].result.path = "fallback" <=> Dispatched(req[r], "llm")

\* C8 amended: the path tag of a returned result is "direct" exactly when the
\* direct path dispatched and "llm" exactly when the model path did; no other
\* tag is returned.
C8_PathTagDirectOrLlm ==
    \A r \in Requests :
        Finished(req[r]) /\ req[r].result.kind = "returned"
            => /\ req[r].result.path \in {"direct", "llm"}
               /\ req[r].result.path = "direct" <=> Dispatched(req[r], "direct")
               /\ req[r].result.path = "llm" <=> Dispatched(req[r], "llm")

\* C8 witness: a result of the model path was returned
C8_Witness ==
    \E r \in Requests :
        /\ Finished(req[r])
        /\ req[r].result.kind = "returned"
        /\ Dispatched(req[r], "llm")

\* the numbers written in the text from position i on: each maximal run of
\* digits, with the decimal fraction that follows it, as [whole, fraction]
RECURSIVE WrittenNumbers(_, _)
WrittenNumbers(text, i) ==
    IF i > Len(text) THEN << >>
    ELSE IF ~IsDigit(CharAt(text, i)) THEN WrittenNumbers(text, i + 1)
    ELSE LET n == DigitRun(text, i)
             f == IF i + n <= Len(text) /\ CharAt(text, i + n) = "."
                  THEN DigitRun(text, i + n + 1) ELSE 0
             next == IF f > 0 THEN i + n + 1 + f ELSE i + n
         IN  << [whole |-> IntOf(SubSeq(text, i, i + n - 1)),
                 fraction |-> IF f > 0 THEN SubSeq(text, i + n + 1, i + n + f) ELSE ""] >>
                \o WrittenNumbers(text, next)

\* the value of a written number lies in 5..35
InComfortRange(number) ==
    /\ number.whole >= 5
    /\ number.whole < 35 \/ (number.whole = 35 /\ IntOf(number.fraction) = 0)

\* tenths is the value of the written number
IsValueOf(tenths, number) ==
    \/ number.fraction = "" /\ tenths = 10 * number.whole
    \/ /\ number.fraction # ""
       /\ tenths = 10 * number.whole + DigitVal(CharAt(number.fraction, 1))
       /\ IntOf(Suffix(number.fraction, 2)) = 0

\* the positions, among the numbers written in the text, of those in 5..35
ComfortNumbers(text) ==
    LET numbers == WrittenNumbers(text, 1)
    IN  {n \in DOMAIN numbers : InComfortRange(numbers[n])}

\* C9: on the direct path with ha_climate_set_temperature the dispatched
\* temperature is the first number written in the text whose value lies in
\* 5..35; when the text has no such number the direct path dispatches nothing.
C9_FirstComfortNumber ==
    \A r \in Requests : \A i \in DOMAIN req[r].calls :
        LET call == req[r].calls[i]
            numbers == WrittenNumbers(req[r].text, 1)
            comfort == ComfortNumbers(req[r].text)
        IN  call.path = "direct" /\ call.service = "set_temperature"
            => /\ comfort # {}
               /\ TypeOf(MapGet(call.data, "temperature")) = "float"
               /\ IsValueOf(ContentOf(MapGet(call.data, "temperature")),
                            numbers[CHOOSE n \in comfort : \A m \in comfort : n <= m])

\* one of the keywords occurs in the text as a whole word, whatever its case
OccursAsWord(text, keywords) ==
    \E keyword \in keywords : \E i \in 1..Len(text) :
        LET last == i + Len(keyword) - 1
        IN  /\ last <= Len(text)
            /\ Lower(SubSeq(text, i, last)) = keyword
            /\ i = 1 \/ ~IsWordChar(CharAt(text, i - 1))
            /\ last = Len(text) \/ ~IsWordChar(CharAt(text, last + 1))

\* C10: the negation predicate is true for a text exactly when a negation
\* keyword occurs in it as a whole word, case-insensitively.
C10_NegationIsWholeWord ==
    out.done => (out.negation <=> OccursAsWord(probe, NEGATION_KEYWORDS))

\* C10 witness: "aus" occurs only inside a longer word and the predicate is false
C10_Witness ==
    out.done /\ probe = "ausgezeichnet" /\ ~out.negation

\* every key of the dicts of a value, at any depth
RECURSIVE AllKeys(_)
AllKeys(value) ==
    CASE TypeOf(value) = "list" ->
            UNION {AllKeys(ContentOf(value)[i]) : i \in DOMAIN ContentOf(value)}
      [] TypeOf(value) = "map" ->
            Keys(ContentOf(value))
                \cup UNION {AllKeys(ContentOf(value)[i].v) : i \in DOMAIN ContentOf(value)}
      [] OTHER -> {}

\* the key begins with the double underscore
IsReserved(key) == Len(key) >= 2 /\ SubSeq(key, 1, 2) = "__"

\* sanitize_tool_arguments was applied to non-empty allowed names and
\* returned a dict
SanitizeReturned == out.done /\ probe.allowed_keys # << >> /\ ~IsError(out.sanitized)

\* sanitize_tool_arguments was applied to non-empty allowed names and raised
\* SanitizationError
SanitizeFailed == out.done /\ probe.allowed_keys # << >> /\ IsError(out.sanitized)

\* C11: whenever sanitize returns a result for non-empty allowedNames, every
\* top-level key of the result is an allowed name and no key of the result,
\* at the top level or in a nested map, begins with '__'.
C11_OnlyAllowedNoReservedKeys ==
    SanitizeReturned
        => /\ Keys(ContentOf(out.sanitized)) \subseteq Range(probe.allowed_keys)
           /\ \A key \in AllKeys(out.sanitized) : ~IsReserved(key)

\* C11 witness: a dict with a reserved top-level key and a nested dict was
\* sanitized to a non-empty result
C11_Witness ==
    /\ SanitizeReturned
    /\ probe.args # None
    /\ HasKey(Get(probe.args), "__proto__")
    /\ ContentOf(out.sanitized) # EmptyMap
    /\ \E i \in DOMAIN ContentOf(out.sanitized) :
          TypeOf(ContentOf(out.sanitized)[i].v) = "map"

\* every list and every dict of the value, at any depth, has at most
\* MaxElements elements
RECURSIVE WithinLimit(_)
WithinLimit(value) ==
    CASE TypeOf(value) \in {"list", "map"} ->
            /\ Len(ContentOf(value)) <= MaxElements
            /\ \A i \in DOMAIN ContentOf(value) :
                  WithinLimit(IF TypeOf(value) = "list"
                              THEN ContentOf(value)[i] ELSE ContentOf(value)[i].v)
      [] OTHER -> TRUE

\* the sanitized list or dict of scalars is the input cut to its first
\* MaxElements elements, in input order
CutToLimit(given, result) ==
    /\ TypeOf(result) = TypeOf(given)
    /\ Len(ContentOf(result)) = Min(Len(ContentOf(given)), MaxElements)
    /\ \A i \in DOMAIN ContentOf(result) : ContentOf(result)[i] = ContentOf(given)[i]

\* C12: every list and every map in the output of sanitize, at every nesting
\* level including the top-level result map itself, has at most 20 elements,
\* and a truncated list or map keeps the first 20 elements of the input in
\* input order.
C12_AtMostTwentyEverywhere ==
    SanitizeReturned
        => /\ WithinLimit(out.sanitized)
           /\ \A i \in DOMAIN ContentOf(out.sanitized) :
                 LET entry == ContentOf(out.sanitized)[i]
                     given == MapGet(Get(probe.args), entry.k)
                 IN  given \in {LongList, LongListNullTail, LongMapUnsafeTail}
                        => CutToLimit(given, entry.v)

\* the keys of the dicts of a value that lie within the first MaxElements
\* elements of every list and dict on the way to them
RECURSIVE VisitedKeys(_)
VisitedKeys(value) ==
    LET n == Min(Len(ContentOf(value)), MaxElements)
    IN  CASE TypeOf(value) = "list" ->
                UNION {VisitedKeys(ContentOf(value)[i]) : i \in 1..n}
          [] TypeOf(value) = "map" ->
                {ContentOf(value)[i].k : i \in 1..n}
                    \cup UNION {VisitedKeys(ContentOf(value)[i].v) : i \in 1..n}
          [] OTHER -> {}

\* sanitize_tool_arguments was applied to a dict and non-empty allowed names
SanitizeApplied == out.done /\ probe.allowed_keys # << >> /\ probe.args # None

\* the top-level entries whose key is an allowed name without the prefix
KeptEntries ==
    {i \in DOMAIN Get(probe.args) :
        /\ Get(probe.args)[i].k \in Range(probe.allowed_keys)
        /\ ~IsReserved(Get(probe.args)[i].k)}

\* C13 as stated: sanitize fails with SanitizationError whenever any map key
\* in rawArgs, at the top level or at any nesting depth, begins with '__'.
C13_AnyReservedKeyFails ==
    SanitizeApplied
        => ((\E key \in AllKeys(JMap(Get(probe.args))) : IsReserved(key))
                => IsError(out.sanitized))

\* C13 amended: sanitize fails with SanitizationError whenever a map key
\* beginning with '__' occurs below the top level, in the value of a top-level
\* entry whose key is an allowed name, within the first 20 elements of every
\* list and map on the way to it.
C13_VisitedReservedKeyFails ==
    SanitizeApplied
        => ((\E i \in KeptEntries :
                \E key \in VisitedKeys(Get(probe.args)[i].v) : IsReserved(key))
                => IsError(out.sanitized))

\* C13 witness: the only entry of the dict is allowed and holds a dict with a
\* reserved key behind a list
C13_Witness ==
    /\ SanitizeApplied
    /\ Len(Get(probe.args)) = 1
    /\ KeptEntries = {1}
    /\ TypeOf(Get(probe.args)[1].v) = "list"
    /\ \E key \in VisitedKeys(Get(probe.args)[1].v) : IsReserved(key)
    /\ out.sanitized = SanitizationError("Unsafe mapping key detected")

\* the type is one _sanitize_value accepts
Supported(value) == TypeOf(value) \in {"str", "int", "float", "bool", "list", "map"}

\* the elements of a list or the values of a dict, the first n of them
Elements(value, n) ==
    {IF TypeOf(value) = "list" THEN ContentOf(value)[i] ELSE ContentOf(value)[i].v :
        i \in 1..Min(n, Len(ContentOf(value)))}

\* some value reachable in the value by recursive descent has another type
RECURSIVE UnsupportedAnywhere(_)
UnsupportedAnywhere(value) ==
    \/ ~Supported(value)
    \/ /\ TypeOf(value) \in {"list", "map"}
       /\ \E element \in Elements(value, Len(ContentOf(value))) : UnsupportedAnywhere(element)

\* the same, descending only into the first MaxElements elements of every
\* list and dict
RECURSIVE UnsupportedVisited(_)
UnsupportedVisited(value) ==
    \/ ~Supported(value)
    \/ /\ TypeOf(value) \in {"list", "map"}
       /\ \E element \in Elements(value, MaxElements) : UnsupportedVisited(element)

\* C14 as stated: sanitize fails with SanitizationError whenever any value
\* reachable in rawArgs by recursive descent, under any top-level key and at
\* any position of a list or map, has a type outside string, integer, float,
\* boolean, list, map.
C14_AnyUnsupportedValueFails ==
    SanitizeApplied
        => (UnsupportedAnywhere(JMap(Get(probe.args))) => IsError(out.sanitized))

\* C14 amended: sanitize fails with SanitizationError whenever a value of
\* another type (null included) is reachable from the value of a top-level
\* entry whose key is an allowed name without the '__' prefix, descending
\* only into the first 20 elements of every list and map.
C14_VisitedUnsupportedValueFails ==
    SanitizeApplied
        => ((\E i \in KeptEntries : UnsupportedVisited(Get(probe.args)[i].v))
                => IsError(out.sanitized))

\* C14 witness: the only entry of the dict is allowed and holds a list with a
\* null in it
C14_Witness ==
    /\ SanitizeApplied
    /\ Len(Get(probe.args)) = 1
    /\ KeptEntries = {1}
    /\ Get(probe.args)[1].v = JList(<< JInt(1), JNull >>)
    /\ out.sanitized = SanitizationError("Unsupported argument type provided")

\* the dict without its entries under keys that are not allowed names
AllowedOnly(args, allowed_keys) ==
    SelectSeq(args, LAMBDA entry : entry.k \in Range(allowed_keys))

\* C15: a top-level key of rawArgs that is not in allowedNames is dropped
\* silently, whatever its name or its value: sanitize returns, or fails, as it
\* does on rawArgs without that entry, and no such key is in the result; on
\* {"entity_id": "light.bad", "__proto__": "x"} with allowed names {entity_id}
\* it returns exactly {"entity_id": "light.bad"}.
C15_UnknownKeysDropped ==
    SanitizeApplied
        => /\ out.sanitized =
                sanitize_tool_arguments(Some(AllowedOnly(Get(probe.args), probe.allowed_keys)),
                                        probe.allowed_keys)
           /\ ~IsError(out.sanitized)
                => Keys(ContentOf(out.sanitized)) \subseteq Range(probe.allowed_keys)
           /\ probe.args = Some(ScenarioArgs) /\ probe.allowed_keys = << "entity_id" >>
                => out.sanitized = JMap(<< [k |-> "entity_id", v |-> JStr("light.bad")] >>)

\* C15 witness: the dict has an entry under an unknown key whose value no
\* sanitization accepts, and sanitize returned
C15_Witness ==
    /\ SanitizeReturned
    /\ probe.args # None
    /\ \E i \in DOMAIN Get(probe.args) :
          /\ Get(probe.args)[i].k = "temperature"
          /\ "temperature" \notin Range(probe.allowed_keys)
          /\ UnsupportedVisited(Get(probe.args)[i].v)
    /\ ContentOf(out.sanitized) # EmptyMap

\* the registered capabilities with the given name
Registered(tool_name) ==
    {i \in DOMAIN TOOL_DEFINITIONS : TOOL_DEFINITIONS[i].name = tool_name}

\* C16: prepare_service_payload returns (domain, service, args) only when the
\* name is a registered capability and every required argument of it is a key
\* of the sanitized args; when the name is not registered, or a required
\* argument is absent after sanitization (rawArgs null or empty included), it
\* fails and returns nothing to dispatch.
C16_PrepareChecksRequired ==
    out.done =>
        LET registered == Registered(probe.tool_name)
            raw == IF probe.args = None THEN EmptyMap ELSE Get(probe.args)
        IN  /\ registered = {} => out.prepared.raised # ""
            /\ \A i \in registered :
                  LET definition == TOOL_DEFINITIONS[i]
                      required == Range(definition.required_args)
                      sanitized == sanitize_tool_arguments(Some(raw), definition.allowed_args)
                      complete == ~IsError(sanitized)
                                    /\ required \subseteq Keys(ContentOf(sanitized))
                  IN  /\ out.prepared.raised = "" <=> complete
                      /\ complete =>
                            out.prepared = Prepared(definition.domain, definition.service,
                                                    ContentOf(sanitized))
                      /\ ~complete => /\ out.prepared.data = EmptyMap
                                      /\ out.prepared.domain = ""

\* C16 witness: a registered capability was prepared without arguments and
\* the preparation failed on its required argument
C16_Witness ==
    /\ out.done
    /\ Registered(probe.tool_name) # {}
    /\ probe.args = None
    /\ out.prepared.raised = "SanitizationError"
    /\ out.prepared.message = "Missing required argument"

\* a call of refresh() ends in this step: lifespan's or the loop's await of it
\* returns or raises
RefreshEnds == loop \in {"startup", "fetch"} /\ loop' # loop

\* the caller of refresh() got its exception: lifespan does not start the
\* application, the loop logs its warning
RefreshRaised == RefreshEnds /\ loop' \in {"failed", "warned"}

\* C17: refresh() is all-or-nothing: when fetch_states fails the failure
\* reaches the caller of refresh, and the active snapshot, records and refresh
\* timestamp, is what it was before the call; a refresh that does not raise
\* installs a snapshot with a new timestamp.
C17_RefreshAllOrNothing ==
    [][/\ RefreshRaised => entities' = entities /\ last_refresh' = last_refresh
       /\ RefreshEnds /\ ~RefreshRaised
            => /\ last_refresh' > last_refresh
               /\ \E snapshot \in Snapshots : entities' = snapshot
       /\ ~RefreshEnds => entities' = entities /\ last_refresh' = last_refresh]_vars

\* C17 witness: a refresh of the loop failed while a snapshot with records
\* was active
C17_Witness ==
    loop = "warned" /\ entities # << >> /\ last_refresh >= 1

\* the state has an identifier and its classified domain is not ignored
Controllable(state) ==
    /\ state.entity_id # ""
    /\ classify(state.entity_id, state.attributes) \notin IGNORED_DOMAINS

\* the records of the controllable states of the list, in source order, cut
\* to the first cap of them
ControllableRecords(states, cap) ==
    LET kept == SelectSeq(states, Controllable)
    IN  [i \in 1..Min(Len(kept), cap) |-> EntityRecord(kept[i])]

\* C18: after a successful refresh the snapshot is the source list without the
\* records of an ignored classified domain and without the records that have
\* no identifier, cut to its first cache_max_entities records, in source
\* order; so it holds at most cache_max_entities records, for every configured
\* cap, 0 included, and no record of an ignored domain.
C18_SnapshotFilteredAndCapped ==
    out.done
        => /\ out.entities = ControllableRecords(probe.states, probe.cache_max_entities)
           /\ Len(out.entities) <= probe.cache_max_entities
           /\ \A i \in DOMAIN out.entities : out.entities[i].domain \notin IGNORED_DOMAINS

\* the lists a refresh can install: each the whole filtered source
Complete(snapshot) == snapshot \in Snapshots

\* C19: whatever the interleaving of refresh() with search (scored in a worker
\* thread) and get_context_entities, the list a call read is a complete
\* snapshot, the one active before the refresh or the one it installed, never
\* a list under construction, and every record the call returned is a record
\* of that one snapshot.
C19_ReadersSeeOneCompleteSnapshot ==
    out.pc = "done" /\ out.snapshot # << >>
        => /\ Complete(out.snapshot)
           /\ probe.op = "search"
                 => \A i \in DOMAIN out.returned :
                        out.returned[i] \in Range(out.snapshot)
           /\ probe.op = "get_context_entities"
                 => \A i \in DOMAIN out.returned :
                        \E record \in Range(out.snapshot) :
                            out.returned[i] = ContextEntry(record)

\* a search read the list while refresh() was building the next one, and
\* returned a record
C19_Witness ==
    /\ probe.op = "search"
    /\ out.pc = "done"
    /\ out.during = "build"
    /\ refresh_frame.filtered # << >>
    /\ out.returned # << >>

\* the score the scorer gave the record: scores follows the choices, one per
\* entity_id
ScoreOf(record, records, scores) ==
    scores[CHOOSE i \in DOMAIN Choices(records) :
               Choices(records)[i].k = record.entity_id]

\* the best `limit` of the records at the positions `left`, by descending
\* score, equal scores in the order of the list
RECURSIVE BestFirst(_, _, _, _)
BestFirst(records, scores, limit, left) ==
    IF limit = 0 \/ left = {} THEN << >>
    ELSE LET best == CHOOSE i \in left :
                        \A j \in left :
                            \/ ScoreOf(records[i], records, scores)
                                  > ScoreOf(records[j], records, scores)
                            \/ /\ ScoreOf(records[i], records, scores)
                                     = ScoreOf(records[j], records, scores)
                               /\ i <= j
         IN  << records[best] >> \o BestFirst(records, scores, limit - 1, left \ {best})

\* what the search is to return: of the records of the snapshot in the
\* domains, those the scorer gave at least min_score, best first, at most limit
ExpectedMatches(snapshot, limit, domains, scores) ==
    LET records == SelectSeq(snapshot,
                             LAMBDA record : domains = {} \/ record.domain \in domains)
        eligible == {i \in DOMAIN records :
                        ScoreOf(records[i], records, scores) >= min_score}
    IN  BestFirst(records, scores, limit, eligible)

\* C20: search returns at most limit records, each a record of the active
\* snapshot in the domain filter whose score is at least min_score, by
\* descending score, equal scores in snapshot order: the result is a function
\* of the snapshot, the query's scores, the limit and the filter; an empty
\* query or an empty snapshot gives the empty list and nothing is scored.
C20_SearchReturnsBestMatches ==
    \A r \in Requests :
        /\ req[r].snapshot # << >>
              => req[r].matches
                    = ExpectedMatches(req[r].snapshot, 1,
                                      {Get(req[r].route).domain}, req[r].scores)
        /\ req[r].snapshot = << >>
              => req[r].matches = << >> /\ req[r].scores = << >>

\* the first `limit` records of the snapshot that are in the domain filter,
\* in snapshot order, as the descriptions get_context_entities gives
FirstInFilter(snapshot, limit, domains) ==
    LET matching == SelectSeq(snapshot,
                              LAMBDA record : domains = {} \/ record.domain \in domains)
    IN  [i \in 1..Min(Len(matching), limit) |-> ContextEntry(matching[i])]

\* C21: get_context_entities(limit, domains) returns the first limit records
\* of the active snapshot, in snapshot order, that match the optional domain
\* filter, all of them when fewer match; so it never returns more than limit
\* descriptions, for any limit >= 0.
C21_ContextIsFirstLimitRecords ==
    probe.op = "get_context_entities" /\ out.pc = "done"
        => /\ out.returned = FirstInFilter(out.snapshot, probe.limit, probe.domains)
           /\ Len(out.returned) <= probe.limit

\* the last n elements of the sequence, all of it when it is shorter
MostRecent(seq, n) ==
    IF Len(seq) <= n THEN seq ELSE SubSeq(seq, Len(seq) - n + 1, Len(seq))

\* C22: whatever the interleaving of the requests in flight, the context
\* never holds more than max_length (10) entries, and every change of it is
\* the append of one entry of a request that ends, the oldest entry leaving
\* when the context was full: so it always is the most recent
\* min(n, max_length) of the n entries appended so far, in append order.
C22_ContextIsMostRecentEntries ==
    [][/\ Len(history') <= max_length
       /\ (\/ history' # history
           \/ \E q \in DOMAIN req : req'[q].appended > req[q].appended)
             => LET entry == history'[Len(history')]
                IN  /\ history' = MostRecent(Append(history, entry), max_length)
                    /\ \E r \in DOMAIN req :
                          /\ req[r].pc \notin {"idle", "done"}
                          /\ req'[r].pc = "done"
                          /\ req'[r].appended = req[r].appended + 1
                          /\ entry.user_text = req[r].text]_vars

\* the context was full, a request appended its entry while another was
\* waiting for the control plane, and the oldest entry is gone
C22_Witness ==
    /\ Len(history) = max_length
    /\ history[1] # PastHistory(1)[1]
    /\ \E r, other \in DOMAIN req :
          /\ req[r].pc = "done" /\ req[r].appended = 1
          /\ history[max_length].user_text = req[r].text
          /\ req[other].pc \in {"call_direct", "call_llm"}

\* C23 (first part): the refresh loop never calls refresh() less than 30
\* time units after the call before, the one of lifespan included, whatever
\* discovery_refresh_seconds is configured.
\* C23 (second part): a refresh that fails leaves the active snapshot as it
\* is and the loop running, its next sleep under way; the next refresh that
\* succeeds installs its snapshot.
C23_RefreshesThirtyApartAndLoopSurvives ==
    [][/\ loop' = "fetch" /\ loop # "fetch"
            => Get(out'.attempt_at) - Get(out.attempt_at) >= 30
       /\ loop = "fetch" /\ loop' # "fetch"
            => \/ /\ loop' = "warned"
                  /\ entities' = entities
                  /\ out'.wake_at >= out.now + 30
               \/ /\ loop' = "sleep"
                  /\ entities' \in Snapshots
                  /\ last_refresh' = last_refresh + 1]_vars

\* under a configured interval below 30 the loop has called refresh() a
\* second time, 60 time units or more after the start: its first refresh
\* failed, this one succeeded and installed its snapshot
C23_Witness ==
    /\ probe.discovery_refresh_seconds < 30
    /\ loop = "sleep"
    /\ out.attempt_at # None
    /\ Get(out.attempt_at) >= 60
    /\ last_refresh = 2
    /\ entities \in Snapshots

\* the Fast Router's table as the specification orders it: light, cover,
\* media, climate, switch
RouteOrder ==
    << [intent |-> "light_control", domain |-> "light"],
       [intent |-> "cover_control", domain |-> "cover"],
       [intent |-> "media_control", domain |-> "media_player"],
       [intent |-> "climate_control", domain |-> "climate"],
       [intent |-> "switch_control", domain |-> "switch"] >>

\* a keyword of the intent occurs in the lower-cased text
KeywordOccurs(text, intent) ==
    \E p \in DOMAIN DIRECT_PATTERNS :
        /\ DIRECT_PATTERNS[p].intent = intent
        /\ \E keyword \in Range(DIRECT_PATTERNS[p].keywords) :
              Contains(Lower(text), keyword)

\* C24: semantic_route(text) returns the (intent, domain) of the first entry,
\* in the order light, cover, media, climate, switch, that has a keyword
\* occurring as a substring of the lower-cased text, and None exactly when no
\* keyword of any entry occurs in it.
C24_FirstEntryInTableOrderWins ==
    out.done
        => LET matching == {i \in DOMAIN RouteOrder :
                                KeywordOccurs(probe, RouteOrder[i].intent)}
           IN  /\ out.route = None <=> matching = {}
               /\ matching # {}
                     => \E i \in matching :
                           /\ \A j \in matching : i <= j
                           /\ Get(out.route) = RouteOrder[i]

\* the text names a cover before a light and is routed to the light; the
\* keyword is found in a capitalised word
C24_Witness ==
    /\ out.done
    /\ probe = "rolloLicht"
    /\ out.route = Some(RouteOrder[1])

\* the services that switch a device on, start it or set it, and those that
\* switch it off or stop it
ActivateServices == {"turn_on", "media_play", "open_cover", "set_temperature"}
DeactivateServices == {"turn_off", "media_pause", "close_cover"}

\* intents the Fast Router never returns
OtherIntents == {"", "light", "status_question", "LIGHT_CONTROL"}

\* C25: for every intent the Fast Router returns, tool_for_intent(intent,
\* turn_off) is a registered capability, an activate capability when turn_off
\* is false and a deactivate capability when it is true, and its domain is
\* the domain the router pairs with the intent; for any other intent it is
\* None.
C25_IntentMapsToActivateOrDeactivate ==
    /\ \A intent \in OtherIntents, turn_off \in BOOLEAN :
          tool_for_intent(intent, turn_off) = None
    /\ out.done /\ out.route # None
          => /\ out.tool # None
             /\ get_tool_definition(Get(out.tool).name) = out.tool
             /\ Get(out.tool).domain = Get(out.route).domain
             /\ Get(out.tool).service
                   \in IF out.negation THEN DeactivateServices ELSE ActivateServices

\* the keys of the alias table and the domain each maps to
AliasKeys == {DEFAULT_ALIASES[a].alias : a \in DOMAIN DEFAULT_ALIASES}
AliasDomain(key) ==
    DEFAULT_ALIASES[CHOOSE a \in DOMAIN DEFAULT_ALIASES : DEFAULT_ALIASES[a].alias = key].domain

\* the canonical domain names
CanonicalDomains == DeviceDomain \ {"unknown"}

\* the device_class of the attributes, stripped and lower-cased, "" if none
DeviceClassOf(attributes) == Lower(Strip(MapGetOr(attributes, "device_class", "")))

\* the identifier up to its first dot
RawPrefix(entity_id) == SplitFirst(entity_id, ".")

\* the positions of the alias table whose key occurs in the identifier
AliasesInside(entity_id) ==
    {a \in DOMAIN DEFAULT_ALIASES : Contains(Lower(entity_id), DEFAULT_ALIASES[a].alias)}

\* none of the first four steps of the resolution order matches
NoStepMatches(entity_id, attributes) ==
    /\ DeviceClassOf(attributes) \notin AliasKeys
    /\ entity_id # "" => Lower(RawPrefix(entity_id)) \notin AliasKeys \cup CanonicalDomains
    /\ AliasesInside(entity_id) = {}

\* C26: classify follows the resolution order, first match wins: the
\* device_class decides only when it is a key of the alias table; otherwise
\* the identifier's prefix decides when it is a key of the alias table;
\* otherwise a prefix that is a canonical domain is returned; otherwise the
\* first alias key, in table order, that occurs in the lower-cased identifier
\* decides.  So classify('d.name', attrs) = d for a canonical domain d when
\* neither d nor the device_class is an alias key.
C26_ResolutionOrder ==
    out.done
        => LET device_class == DeviceClassOf(probe.attributes)
               prefix == Lower(RawPrefix(probe.entity_id))
               inside == AliasesInside(probe.entity_id)
           IN  IF device_class \in AliasKeys
               THEN out.domain = AliasDomain(device_class)
               ELSE IF probe.entity_id # "" /\ prefix \in AliasKeys
               THEN out.domain = AliasDomain(prefix)
               ELSE IF probe.entity_id # "" /\ prefix \in CanonicalDomains
               THEN out.domain = prefix
               ELSE inside # {}
                       => out.domain
                             = DEFAULT_ALIASES[CHOOSE a \in inside :
                                                  \A b \in inside : a <= b].domain

\* C27: when none of the first four steps matches, classify returns the
\* identifier's raw prefix as it is written, and 'unknown' whenever the
\* identifier is empty, whatever device_class that is no alias key the
\* attributes carry; it returns a string for every input.
C27_RawPrefixOrUnknown ==
    out.done
        => /\ out.domain # ""
           /\ probe.entity_id = "" /\ DeviceClassOf(probe.attributes) \notin AliasKeys
                 => out.domain = "unknown"
           /\ probe.entity_id # "" /\ NoStepMatches(probe.entity_id, probe.attributes)
                 => out.domain = RawPrefix(probe.entity_id)

\* the message asks which lights are on / asks for a temperature / names a
\* cover / asks to close
AsksLightStatus(lowered) ==
    /\ Contains(lowered, "welche") \/ Contains(lowered, "was")
    /\ Contains(lowered, "lampen") \/ Contains(lowered, "lichter") \/ Contains(lowered, "licht")
AsksTemperature(lowered) == Contains(lowered, "temperatur") \/ Contains(lowered, "warm")
NamesCover(lowered) ==
    \E keyword \in {"rollo", "rolladen", "rollos", "jalousie"} : Contains(lowered, keyword)
AsksToClose(lowered) ==
    Contains(lowered, "runter") \/ Contains(lowered, "schließ") \/ Contains(lowered, "zu")

\* the positions of the entities classified as cover that a keyword of the
\* message matches by name or identifier
MatchingCovers(lowered, list) ==
    {i \in DOMAIN list :
        /\ entity_classifier_classify_entity(list[i].entity_id, list[i].attributes) = "cover"
        /\ entity_matches_keywords(list[i],
                                   KeywordsOf(lowered, {"mach", "die", "den", "das", "bitte"}))}

\* C28: for a user message that is no question about the lights that are on
\* and no temperature question, that contains a cover keyword and has a
\* keyword matching the name or identifier of an entity classified as cover,
\* generate_ha_response returns one choice with finish_reason
\* 'function_call' that names the first such entity of the list, the function
\* being close_cover when the text contains 'runter', 'schließ' or 'zu' and
\* open_cover otherwise.
C28_CoverCommandNamesFirstCover ==
    out.done
        => LET lowered == Lower(UserContent(probe.messages))
               covers == MatchingCovers(lowered, probe.entities)
           IN  /\ ~AsksLightStatus(lowered)
               /\ ~AsksTemperature(lowered)
               /\ NamesCover(lowered)
               /\ covers # {}
               => LET first == probe.entities[CHOOSE i \in covers : \A j \in covers : i <= j]
                      choice == out.response.choices[1]
                  IN  /\ Len(out.response.choices) = 1
                      /\ choice.finish_reason = "function_call"
                      /\ choice.message.function_call # None
                      /\ Get(choice.message.function_call).name
                            = IF AsksToClose(lowered) THEN "close_cover" ELSE "open_cover"
                      /\ Get(choice.message.function_call).arguments
                            = "{\"entity_id\": \"" \o first.entity_id \o "\"}"

\* the request of test_close_living_room_covers, and a request two covers of
\* the list match
C28_Witness ==
    /\ out.done
    /\ \/ /\ probe.messages = User("Mach die Rollos im Wohnzimmer runter")
          /\ probe.entities = TestEntities
       \/ /\ probe.messages = User("Mach bitte das Rollo im Bad auf")
          /\ probe.entities = CoverEntities
          /\ Cardinality(MatchingCovers("mach bitte das rollo im bad auf", CoverEntities)) = 2
    /\ out.response.choices[1].finish_reason = "function_call"

\* the step ends the request r with the dict process returns after a
\* successful callService
EndsDispatched(r) ==
    /\ req[r].pc \in {"call_direct", "call_llm"}
    /\ Finished(req'[r])
    /\ req'[r].result.kind = "returned"

\* the step ends the request r in any other way
EndsOtherwise(r) ==
    /\ ~Finished(req[r]) /\ req[r].pc # "idle"
    /\ Finished(req'[r])
    /\ ~EndsDispatched(r)

\* C29: the context is changed only by process(text) and only after its
\* callService returned successfully: a request whose dispatch succeeds
\* appends exactly one entry, carrying its text; a request that ends without
\* a successful dispatch (no match, sanitization failure, model failure,
\* missing action name, control-plane failure) leaves the context as it is;
\* no other step changes the context.
C29_ContextChangesOnlyAfterDispatch ==
    [][/\ \A r \in Requests :
            EndsDispatched(r)
                => /\ history' = Append(history, history'[Len(history')])
                   /\ history'[Len(history')].user_text = req[r].text
                   /\ req'[r].appended = 1
       /\ \A r \in Requests :
            EndsOtherwise(r) => history' = history /\ req'[r].appended = 0
       /\ history' # history => \E r \in Requests : EndsDispatched(r)]_vars

\* one request ended with a dispatch of the model path and its entry is in
\* the context, after a refresh of the loop
C29_Witness ==
    \E r \in Requests :
        /\ Finished(req[r])
        /\ req[r].result.kind = "returned"
        /\ req[r].result.path = "llm"
        /\ req[r].appended = 1
        /\ Len(history) = 1
        /\ history[1].user_text = req[r].text
        /\ last_refresh >= 2

\* the callService calls the request issued on the direct path
DirectCalls(q) == {q.calls[i] : i \in {j \in DOMAIN q.calls : q.calls[j].path = "direct"}}

\* the records of a snapshot the call names: their identifier is the
\* entity_id of the payload
NamedRecords(snapshot, call) ==
    {record \in Range(snapshot) :
        /\ HasKey(call.data, "entity_id")
        /\ MapGet(call.data, "entity_id") = JStr(record.entity_id)}

\* C30: on the direct path, whatever refreshes run beside the request, the
\* entity_id sent to the control plane is the identifier of a record of the
\* snapshot the search of the request read, itself one of the snapshots a
\* refresh installs, and the domain of that record is the domain of the
\* route of the request and the domain of the service that is called.
C30_DirectCallNamesRecordOfRouteDomain ==
    \A r \in Requests :
        \A call \in DirectCalls(req[r]) :
            /\ req[r].snapshot \in Snapshots
            /\ req[r].route # None
            /\ \E record \in NamedRecords(req[r].snapshot, call) :
                  /\ record.domain = Get(req[r].route).domain
                  /\ record.domain = call.domain

\* a direct call was issued for a record of a snapshot that a refresh has
\* replaced since by one without that record
C30_Witness ==
    \E r \in Requests :
        \E call \in DirectCalls(req[r]) :
            /\ NamedRecords(req[r].snapshot, call) # {}
            /\ req[r].snapshot # entities
            /\ NamedRecords(entities, call) = {}

=============================================================================
